---- MODULE Spec2Model ----
(***************************************************************************)
(* Model of jellyfin_music_organizer/core/organize_thread.py:              *)
(* OrganizeThread.run and the helpers it calls.                            *)
(*                                                                         *)
(* Text (tag keys, tag values, path strings) is a sequence of one-         *)
(* character strings, so that lower(), replace(), split() and strip() are  *)
(* computed character by character as Python computes them.  A path of the *)
(* file system is the sequence of its segments (pathlib's parts).          *)
(***************************************************************************)
EXTENDS Integers, Sequences, FiniteSets, TLC

VARIABLES
    pc,                    \* position of run(): "start", "loop", "empty", "finished",
                           \* "killed"; "clean" when clean_filename is called on its
                           \* own; "new", "raised" before and after a failed __init__
    tree,                  \* the entries under the source root
    pathlist,              \* run(): the list discovery produced
    remove_illegal_chars,  \* self.remove_illegal_chars
    fs,                    \* the file system: [dirs, files]
    visited,               \* number of loop iterations of "for path in pathlist" done
    i,                     \* run(): the progress counter i
    recall_files,          \* run(): {"error_files": [...], "replace_skip_files": [...]}
    events,                \* the signals emitted so far, in order
    finish_arg,            \* the dictionaries organize_finish_signal was emitted with
    outcomes,              \* history: what each loop iteration did, in order
    previous,              \* history: the list, outcomes and file system of an earlier run
    input_text,            \* the argument of a call of clean_filename on its own
    cleaned,               \* the results of clean_filename on it, then on its result
    settings_file,         \* the file settings_jmo.json
    window,                \* the SettingsWindow: its attributes, and the signals it
                           \* emitted (pc = "window")
    notifier               \* the NotificationManager: its attributes, the sound files,
                           \* and what its calls did (pc = "notify")

vars == <<pc, tree, pathlist, remove_illegal_chars, fs, visited, i, recall_files,
          events, finish_arg, outcomes, previous, input_text, cleaned, settings_file, window, notifier>>

\* Bound of the model: the most entries a source tree holds.
MaxFiles == 3

\* Bound of the model: the most entries a source tree holds when the run is
\* started a second time.
MaxRerunFiles == 2

\* Bound of the model: the most calls of play_notification on one manager
MaxNotifications == 2

\* Bound of the model: the most handlers of a settings window that are called
MaxCalls == 4

\* Bound of the model: the most entries a source tree of files with unusual
\* tag values holds.
MaxOddFiles == 2

\* Bound of the model: the longest text clean_filename is given on its own,
\* apart from the two longer examples.
MaxLen == 4

(***************************************************************************)
(* Text helpers                                                            *)
(***************************************************************************)

\* str.lower() on one character (ASCII letters; every other character of the
\* model's alphabet, "©" included, has no lower-case form and is kept).
LowerChar(c) ==
    CASE c = "A" -> "a" [] c = "B" -> "b" [] c = "C" -> "c" [] c = "D" -> "d"
      [] c = "E" -> "e" [] c = "F" -> "f" [] c = "G" -> "g" [] c = "H" -> "h"
      [] c = "I" -> "i" [] c = "J" -> "j" [] c = "K" -> "k" [] c = "L" -> "l"
      [] c = "M" -> "m" [] c = "N" -> "n" [] c = "O" -> "o" [] c = "P" -> "p"
      [] c = "Q" -> "q" [] c = "R" -> "r" [] c = "S" -> "s" [] c = "T" -> "t"
      [] c = "U" -> "u" [] c = "V" -> "v" [] c = "W" -> "w" [] c = "X" -> "x"
      [] c = "Y" -> "y" [] c = "Z" -> "z" [] OTHER -> c

\* key.lower()
Lower(s) == [n \in 1..Len(s) |-> LowerChar(s[n])]

\* text.translate(str.maketrans("", "", chars)) and text.replace(c, "") for a
\* one-character c: every occurrence of a character of cs is deleted.
RECURSIVE DeleteChars(_, _)
DeleteChars(s, cs) ==
    IF s = <<>> THEN <<>>
    ELSE IF Head(s) \in cs THEN DeleteChars(Tail(s), cs)
    ELSE <<Head(s)>> \o DeleteChars(Tail(s), cs)

\* text.replace("...", ""): non-overlapping occurrences, scanned left to right.
RECURSIVE DeleteEllipsis(_)
DeleteEllipsis(s) ==
    IF Len(s) < 3 THEN s
    ELSE IF s[1] = "." /\ s[2] = "." /\ s[3] = "." THEN DeleteEllipsis(SubSeq(s, 4, Len(s)))
    ELSE <<Head(s)>> \o DeleteEllipsis(Tail(s))

\* The characters str.strip() removes (those of them the model's alphabet has).
Whitespace == {" ", "\t", "\n", "\r", "\f"}

RECURSIVE LStrip(_)
LStrip(s) == IF s # <<>> /\ Head(s) \in Whitespace THEN LStrip(Tail(s)) ELSE s

RECURSIVE RStrip(_)
RStrip(s) ==
    IF s # <<>> /\ s[Len(s)] \in Whitespace THEN RStrip(SubSeq(s, 1, Len(s) - 1)) ELSE s

\* text.strip()
Strip(s) == RStrip(LStrip(s))

\* text.replace(a, b) for one-character a and b
ReplaceChar(s, a, b) == [n \in 1..Len(s) |-> IF s[n] = a THEN b ELSE s[n]]

\* text.split(sep) for a one-character sep: the pieces, empty ones included.
RECURSIVE Split(_, _)
Split(s, sep) ==
    IF \A n \in 1..Len(s) : s[n] # sep THEN <<s>>
    ELSE LET p == CHOOSE n \in 1..Len(s) : s[n] = sep /\ \A m \in 1..(n - 1) : s[m] # sep
         IN  <<SubSeq(s, 1, p - 1)>> \o Split(SubSeq(s, p + 1, Len(s)), sep)

\* segs without the segments that are in drop
RECURSIVE DropSegments(_, _)
DropSegments(segs, drop) ==
    IF segs = <<>> THEN <<>>
    ELSE IF Head(segs) \in drop THEN DropSegments(Tail(segs), drop)
    ELSE <<Head(segs)>> \o DropSegments(Tail(segs), drop)

\* pathlib.Path(text).parts for a relative path text: the text split at "/",
\* empty segments ("a//b") and "." segments dropped.
PathParts(s) == DropSegments(Split(s, "/"), {<<>>, <<".">>})

\* clean_filename with "..." deleted before the single characters
clean_filename_EllipsisFirst(flag, text) ==
    IF flag
    THEN Strip(DeleteChars(DeleteEllipsis(text),
                           {":", "*", "?", "<", ">", "|", "/", "\\", "\"", "'"}))
    ELSE Strip(text)

\* clean_filename with "/" replaced by a space
clean_filename_SlashToSpace(flag, text) ==
    IF flag
    THEN Strip(DeleteEllipsis(DeleteChars(ReplaceChar(text, "/", " "),
                           {":", "*", "?", "<", ">", "|", "\\", "\"", "'"})))
    ELSE Strip(text)

\* clean_filename without .replace("'", "")
clean_filename_KeepsQuote(flag, text) ==
    IF flag
    THEN Strip(DeleteEllipsis(DeleteChars(text,
                           {":", "*", "?", "<", ">", "|", "/", "\\", "\""})))
    ELSE Strip(text)

\* OrganizeThread.clean_filename
clean_filename(flag, text) ==
    IF flag
    THEN Strip(DeleteEllipsis(
             DeleteChars(
                 DeleteChars(
                     DeleteChars(
                         DeleteChars(
                             DeleteChars(text, {":", "*", "?", "<", ">", "|"}),
                             {"/"}),
                         {"\\"}),
                     {"\""}),
                 {"'"})))
    ELSE Strip(text)

(***************************************************************************)
(* Tag values and Python values                                            *)
(***************************************************************************)

\* A tag value or the "" that artist_data / album_data are reset to: a plain
\* str (kind "str", its text) or a list (kind "list", its elements).  An element
\* of a list is [asf, text]: asf says it is an ASFUnicodeAttribute wrapping text.
StrVal(text) == [kind |-> "str", text |-> text, elems |-> <<>>]
ListVal(elems) == [kind |-> "list", text |-> <<>>, elems |-> elems]
Plain(text) == [asf |-> FALSE, text |-> text]
Asf(text) == [asf |-> TRUE, text |-> text]

\* The value "" of lines 153-154
EmptyStr == StrVal(<<>>)

\* dict.get(key) of a dict that has no such key
None == <<"<None>">>

\* Python truthiness of the result of file_info.get("error")
Falsy(v) == v = None \/ v = <<>>

\* dict.get on a record
Get(d, key) == IF key \in DOMAIN d THEN d[key] ELSE None

\* str(e) of the exceptions the run raises itself
NotFoundMsg == <<"Artist or album data not found">>
ExistsMsg == <<"File already exists in the destination folder">>
NoneTypeMsg == <<"'NoneType' object has no attribute 'items'">>
IndexErrorMsg == <<"list index out of range">>
NoExc == <<"<no exception>">>

\* run(), lines 131-132
artist_values ==
    { <<"©", "a", "r", "t">>, <<"a", "r", "t", "i", "s", "t">>,
      <<"a", "u", "t", "h", "o", "r">>, <<"t", "p", "e", "1">> }
album_values ==
    { <<"©", "a", "l", "b">>, <<"a", "l", "b", "u", "m">>, <<"t", "a", "l", "b">> }

(***************************************************************************)
(* File system                                                             *)
(***************************************************************************)

\* self.info["selected_music_folder_path"], self.info["selected_destination_folder_path"]
selected_music_folder_path == <<"s">>
selected_destination_folder_path == <<"d">>

\* The path the operating system reaches for the parts of a relative path:
\* a ".." segment leaves the directory the segments before it lead to (the
\* tree has no symbolic link), and stays when there is none to leave.
RECURSIVE ResolveInto(_, _)
ResolveInto(reached, rest) ==
    IF rest = <<>> THEN reached
    ELSE IF Head(rest) # <<".", ".">> THEN ResolveInto(Append(reached, Head(rest)), Tail(rest))
    ELSE IF reached = <<>> \/ reached[Len(reached)] = <<".", ".">>
    THEN ResolveInto(Append(reached, Head(rest)), Tail(rest))
    ELSE ResolveInto(SubSeq(reached, 1, Len(reached) - 1), Tail(rest))

Resolve(parts) == ResolveInto(<<>>, parts)

\* The place is a directory: one of the tree, the working directory (<<>>)
\* or a directory above it
IsDir(f, at) == at \in f.dirs \/ \A n \in 1..Len(at) : at[n] = <<".", ".">>

\* The place the operating system reaches when it follows the segments from
\* the place at: every segment is looked up in the place reached so far,
\* which has to be a directory (ENOENT, ENOTDIR otherwise), ".." included
RECURSIVE Walk(_, _, _)
Walk(f, at, rest) ==
    IF rest = <<>> THEN [found |-> TRUE, at |-> at]
    ELSE IF ~IsDir(f, at) THEN [found |-> FALSE, at |-> at]
    ELSE Walk(f, ResolveInto(at, <<Head(rest)>>), Tail(rest))

\* Path.exists()
Exists(f, parts) ==
    /\ Walk(f, <<>>, parts).found
    /\ \/ IsDir(f, Walk(f, <<>>, parts).at)
       \/ Walk(f, <<>>, parts).at \in DOMAIN f.files

\* The proper ancestors of a path and the path itself
Prefixes(parts) == { SubSeq(parts, 1, n) : n \in 1..Len(parts) }

\* Path.parent
Parent(parts) == SubSeq(parts, 1, Len(parts) - 1)

\* Path.is_dir()
IsDirPath(f, parts) ==
    /\ Walk(f, <<>>, parts).found
    /\ IsDir(f, Walk(f, <<>>, parts).at)

\* str(path) of the path with these parts
RECURSIVE JoinParts(_)
JoinParts(parts) ==
    IF parts = <<>> THEN <<".">>
    ELSE IF Len(parts) = 1 THEN parts[1]
    ELSE parts[1] \o <<"/">> \o JoinParts(Tail(parts))

\* repr() of one character of a str written between the quotes q
ReprChar(c, q) ==
    IF c = "\\" THEN <<"\\", "\\">>
    ELSE IF c = q THEN <<"\\", c>>
    ELSE IF c = "\t" THEN <<"\\", "t">>
    ELSE IF c = "\n" THEN <<"\\", "n">>
    ELSE IF c = "\r" THEN <<"\\", "r">>
    ELSE IF c = "\f" THEN <<"\\", "x", "0", "c">>
    ELSE <<c>>

\* The characters of repr(text) between its quotes q
RECURSIVE ReprChars(_, _)
ReprChars(text, q) ==
    IF text = <<>> THEN <<>> ELSE ReprChar(Head(text), q) \o ReprChars(Tail(text), q)

\* repr(text) of a str, as str(e) of an OSError writes its file names,
\* between the quotes q: the double quote when the text holds a single quote
\* and no double quote, the single quote otherwise
Repr(text) ==
    LET q == IF /\ \E n \in 1..Len(text) : text[n] = "'"
                /\ \A n \in 1..Len(text) : text[n] # "\""
             THEN "\"" ELSE "'"
    IN  <<q>> \o ReprChars(text, q) \o <<q>>

\* The number of directories the environment lets one call of Path.mkdir
\* make before its next os.mkdir fails: 0 when the directory that is to hold
\* the first new one cannot be written to (EACCES), 1 when the disk or the
\* quota is full after the first new one (ENOSPC); NoLimit when it lets it
\* make them all.  The names of the model are shorter than NAME_MAX, so no
\* os.mkdir fails with ENAMETOOLONG.
NoLimit == -1
MkdirLimit(fault) ==
    IF fault = "mkdir_first" THEN 0 ELSE IF fault = "mkdir_second" THEN 1 ELSE NoLimit

\* The error os.mkdir(path) fails with, "" when it makes the directory: the
\* directory that is to hold the new one is missing (ENOENT) or a regular
\* file (ENOTDIR), or the path exists already (EEXIST), ".." included
MkdirErrno(f, parts) ==
    IF parts = <<>> THEN "EEXIST"
    ELSE IF ~IsDirPath(f, Parent(parts))
    THEN IF Walk(f, <<>>, Parent(parts)).at \in DOMAIN f.files THEN "ENOTDIR" ELSE "ENOENT"
    ELSE IF Exists(f, parts) THEN "EEXIST"
    ELSE ""

\* The result of Path.mkdir: the file system after it, the error it raised
\* ("" when none), the path of the os.mkdir that raised it and the number of
\* directories made
MkdirResult(f, errno, parts, made) ==
    [fs |-> f, errno |-> errno, path |-> parts, made |-> made]

\* Path.mkdir(exist_ok=True) once the parents are there, or when os.mkdir
\* did not fail with ENOENT, after made directories were made: the directory
\* is made, unless the environment lets no more be made (EACCES before the
\* first, ENOSPC after it), or the error of os.mkdir is raised unless the
\* path is a directory already
MkdirOnce(f, parts, errno, made, limit) ==
    IF errno = "" /\ made = limit
    THEN MkdirResult(f, IF made = 0 THEN "EACCES" ELSE "ENOSPC", parts, made)
    ELSE IF errno = ""
    THEN MkdirResult([f EXCEPT !.dirs = @ \cup {Resolve(parts)}], "", parts, made + 1)
    ELSE IF errno # "ENOENT" /\ IsDirPath(f, parts) THEN MkdirResult(f, "", parts, made)
    ELSE MkdirResult(f, errno, parts, made)

\* Path.mkdir(parents=True) after self.parent.mkdir(parents=True,
\* exist_ok=True) gave m: its error, or the directory itself made in the file
\* system it left
AfterParents(m, parts, limit) ==
    IF m.errno # "" THEN m
    ELSE MkdirOnce(m.fs, parts, MkdirErrno(m.fs, parts), m.made, limit)

\* mkdir without parents = True that never fails: only the directory itself
\* is made
PathMkdir_LastOnly(f, parts, limit) ==
    MkdirResult([f EXCEPT !.dirs = @ \cup ({Resolve(parts)} \ {<<>>})], "", parts, 1)

\* Path.mkdir(parents=True, exist_ok=True): os.mkdir of the path; on ENOENT
\* the parent is made first, the same way, and the directories made stay when
\* a later os.mkdir fails
RECURSIVE PathMkdir(_, _, _)
PathMkdir(f, parts, limit) ==
    IF MkdirErrno(f, parts) = "ENOENT"
    THEN AfterParents(PathMkdir(f, Parent(parts), limit), parts, limit)
    ELSE MkdirOnce(f, parts, MkdirErrno(f, parts), 0, limit)

\* os.strerror of the errors of os.mkdir, open and sendfile, as str(e) of
\* the OSError begins
StrError(errno) ==
    IF errno = "EEXIST" THEN "[Errno 17] File exists: "
    ELSE IF errno = "ENOTDIR" THEN "[Errno 20] Not a directory: "
    ELSE IF errno = "ENOENT" THEN "[Errno 2] No such file or directory: "
    ELSE IF errno = "ENOSPC" THEN "[Errno 28] No space left on device: "
    ELSE IF errno = "EISDIR" THEN "[Errno 21] Is a directory: "
    ELSE "[Errno 13] Permission denied: "

\* str(e) of an OSError with one file name
OSErrorText(errno, filename) == <<StrError(errno)>> \o Repr(filename)

\* shutil.copy2: the target gets the source's content
WriteFile(f, parts, data) ==
    [f EXCEPT !.files = [p \in DOMAIN @ \cup {Resolve(parts)} |->
                            IF p = Resolve(parts) THEN data ELSE @[p]]]

(***************************************************************************)
(* The helpers of run()                                                    *)
(***************************************************************************)

\* What the environment can do to one call of _copy_file: nothing; let mkdir
\* make no directory (EACCES) or one directory (ENOSPC) and fail its next
\* os.mkdir;
\* report the source as missing (line 270) or as unreadable (line 272); make
\* shutil.copy2 fail when it opens the target (EACCES), or after it wrote
\* part of it (ENOSPC).
Faults ==
    {"none", "mkdir_first", "mkdir_second", "source_missing", "source_unreadable",
     "copy_error", "copy_partial"}

\* The content of a target that shutil.copy2 left half-written
PartialData == "partial"

\* _handle_existing_file with the two paths exchanged
_handle_existing_file_Swapped(file_name, new_location, path_in_str) ==
    [file_name |-> file_name, new_location |-> path_in_str,
     path_in_str |-> new_location, error |-> ExistsMsg]

\* OrganizeThread._handle_existing_file
_handle_existing_file(file_name, new_location, path_in_str) ==
    [file_name |-> file_name, new_location |-> new_location,
     path_in_str |-> path_in_str, error |-> ExistsMsg]

\* _create_error_info that reports no partial value
_create_error_info_Blank(file_name, artist_data, album_data, metadata_dict, error) ==
    [file_name |-> file_name, artist_found |-> EmptyStr, album_found |-> EmptyStr,
     metadata_dict |-> metadata_dict, error |-> error]

\* OrganizeThread._create_error_info
_create_error_info(file_name, artist_data, album_data, metadata_dict, error) ==
    [file_name |-> file_name, artist_found |-> artist_data, album_found |-> album_data,
     metadata_dict |-> metadata_dict, error |-> error]

\* The result of _copy_file: exc is NoExc or str(e) of the OSError raised at
\* line 289; wrote says whether shutil.copy2 wrote to the target ("no", "full",
\* "partial").
CopyFailed(f, why, wrote) == [exc |-> <<"Copy failed: ">> \o why, fs |-> f, wrote |-> wrote]

\* _copy_file, lines 268-285, after the directories were made (file system f1)
CopyChecked(f1, source_path, source, destination_path, dest, fault) ==
    IF ~Exists(f1, source) \/ fault = "source_missing"
    THEN CopyFailed(f1, <<"Source file not found: ">> \o source_path, "no")
    ELSE IF fault = "source_unreadable"
    THEN CopyFailed(f1, <<"Cannot read source file: ">> \o source_path, "no")
    ELSE IF Exists(f1, dest)
    THEN CopyFailed(f1, <<"Destination file already exists: ">> \o destination_path, "no")
    ELSE IF source \notin DOMAIN f1.files
    THEN CopyFailed(f1, OSErrorText("EISDIR", source_path), "no")
    ELSE IF fault = "copy_error"
    THEN CopyFailed(f1, OSErrorText("EACCES", destination_path), "no")
    ELSE IF fault = "copy_partial"
    THEN CopyFailed(WriteFile(f1, dest, PartialData),
                    OSErrorText("ENOSPC", source_path) \o <<" -> ">>
                        \o Repr(destination_path), "partial")
    ELSE IF ~Exists(WriteFile(f1, dest, f1.files[source]), dest)
    THEN CopyFailed(WriteFile(f1, dest, f1.files[source]),
                    <<"File copy failed: ">> \o destination_path, "full")
    ELSE [exc |-> NoExc, fs |-> WriteFile(f1, dest, f1.files[source]), wrote |-> "full"]

\* _copy_file, lines 266-289, after mkdir gave m: its error is raised with
\* what it made left in place, or the checks and the copy follow
CopyMade(m, source_path, source, destination_path, dest, fault) ==
    IF m.errno # ""
    THEN CopyFailed(m.fs, OSErrorText(m.errno, JoinParts(m.path)), "no")
    ELSE CopyChecked(m.fs, source_path, source, destination_path, dest, fault)

\* _copy_file with the checks of the source before the directories are made
CopyParts_SourceFirst(f, source_path, source, destination_path, dest, fault) ==
    IF ~Exists(f, source) \/ fault \in {"source_missing", "source_unreadable"}
    THEN CopyChecked(f, source_path, source, destination_path, dest, fault)
    ELSE CopyMade(PathMkdir(f, Parent(dest), MkdirLimit(fault)), source_path, source,
                  destination_path, dest, fault)

\* _copy_file, lines 264-289, on the parts of the two paths
CopyParts(f, source_path, source, destination_path, dest, fault) ==
    CopyMade(PathMkdir(f, Parent(dest), MkdirLimit(fault)), source_path, source,
             destination_path, dest, fault)

\* _copy_file that removes the source once the copy is complete
_copy_file_Moves(f, source_path, destination_path, fault) ==
    LET c == CopyParts(f, source_path, PathParts(source_path), destination_path,
                       PathParts(destination_path), fault)
    IN  IF c.wrote = "full"
        THEN [c EXCEPT !.fs.files = [p \in DOMAIN @ \ {PathParts(source_path)} |-> @[p]]]
        ELSE c

\* OrganizeThread._copy_file with create_dirs = True
_copy_file(f, source_path, destination_path, fault) ==
    CopyParts(f, source_path, PathParts(source_path), destination_path,
              PathParts(destination_path), fault)

\* The scan with a value that is kept once found
RECURSIVE ScanItems_FirstWins(_, _, _)
ScanItems_FirstWins(items, artist_data, album_data) ==
    IF items = <<>> THEN [artist_data |-> artist_data, album_data |-> album_data]
    ELSE LET key == Head(items)[1]
             value == Head(items)[2]
             lowercase_key == Lower(key)
         IN  IF lowercase_key \in artist_values
             THEN ScanItems_FirstWins(Tail(items),
                                      IF artist_data = EmptyStr THEN value ELSE artist_data,
                                      album_data)
             ELSE IF lowercase_key \in album_values
             THEN ScanItems_FirstWins(Tail(items), artist_data,
                                      IF album_data = EmptyStr THEN value ELSE album_data)
             ELSE ScanItems_FirstWins(Tail(items), artist_data, album_data)

\* run(), lines 167-172: the scan of metadata.items() for the artist and the
\* album value, from the values found so far.
RECURSIVE ScanItems(_, _, _)
ScanItems(items, artist_data, album_data) ==
    IF items = <<>> THEN [artist_data |-> artist_data, album_data |-> album_data]
    ELSE LET key == Head(items)[1]
             value == Head(items)[2]
             lowercase_key == Lower(key)
         IN  IF lowercase_key \in artist_values
             THEN ScanItems(Tail(items), value, album_data)
             ELSE IF lowercase_key \in album_values
             THEN ScanItems(Tail(items), artist_data, value)
             ELSE ScanItems(Tail(items), artist_data, album_data)

\* value[0] raises IndexError
IndexFails(value) ==
    IF value.kind = "list" THEN value.elems = <<>> ELSE value.text = <<>>

\* The text of the last element of the value instead of the first
FirstText_LastElement(value) ==
    IF value.kind = "list" THEN value.elems[Len(value.elems)].text
    ELSE <<value.text[Len(value.text)]>>

\* run(), lines 179-188: str(value[0]) if value[0] is an ASFUnicodeAttribute,
\* else value[0]; both are the text of the first element (the first character
\* of a plain str).
FirstText(value) ==
    IF value.kind = "list" THEN value.elems[1].text ELSE <<value.text[1]>>

\* run(), lines 195-197 and 200: f"{destination}/{artist}/{album}"
NewLocation(artist, album) ==
    selected_destination_folder_path \o <<"/">> \o artist \o <<"/">> \o album

\* run(), lines 200 and 206: f"{new_location}/{file_name}"
TargetPath(new_location, file_name) == new_location \o <<"/">> \o file_name

\* run(), line 148
PathInStr(path) == ReplaceChar(path, "\\", "/")

\* run(), line 150
FileName(path_in_str) ==
    LET pieces == Split(path_in_str, "/") IN pieces[Len(pieces)]

\* The finally clause counting every file
CountsForProgress_Always(file_info) == TRUE

\* The test of the finally clause counting only files without a record
CountsForProgress_NoRecord(file_info) == Falsy(Get(file_info, "error"))

\* run(), lines 216-220: the condition under which the finally clause counts
\* the file and emits music_progress_signal.
CountsForProgress(file_info) ==
    Falsy(Get(file_info, "error")) \/ Get(file_info, "error") # ExistsMsg

(* The arithmetic of line 222 is that of Python floats: i / len(pathlist)   *)
(* is the float nearest to the quotient, its product with 100 the float    *)
(* nearest to the product, and int() cuts the fraction off.  A float is    *)
(* written here as [digits, exp]: the binary number digits times 2^exp.    *)

\* The number of doublings that bring count to total or above
RECURSIVE Doublings(_, _)
Doublings(count, total) == IF count >= total THEN 0 ELSE 1 + Doublings(2 * count, total)

\* count doubled n times
RECURSIVE Doubled(_, _)
Doubled(count, n) == IF n = 0 THEN count ELSE Doubled(2 * count, n - 1)

\* The next n binary digits of rem / total (rem < total) after the digits
\* found, and whether anything is left after them
RECURSIVE QuotientDigits(_, _, _, _)
QuotientDigits(rem, total, n, found) ==
    IF n = 0 THEN [digits |-> found, inexact |-> rem # 0]
    ELSE IF 2 * rem >= total
    THEN QuotientDigits(2 * rem - total, total, n - 1, Append(found, 1))
    ELSE QuotientDigits(2 * rem, total, n - 1, Append(found, 0))

\* The binary digits plus one
RECURSIVE PlusOne(_)
PlusOne(digits) ==
    IF digits = <<>> THEN <<1>>
    ELSE IF digits[Len(digits)] = 0
    THEN SubSeq(digits, 1, Len(digits) - 1) \o <<1>>
    ELSE PlusOne(SubSeq(digits, 1, Len(digits) - 1)) \o <<0>>

\* The number of binary digits of the significand of a Python float
Precision == 53

\* Rounding of the binary number digits * 2^exp (more than Precision digits,
\* the first one 1; inexact: something non-zero follows them) to the nearest
\* float, ties to even: its digits and exponent
RoundToFloat(digits, inexact, exp) ==
    [digits |->
        IF /\ digits[Precision + 1] = 1
           /\ \/ inexact
              \/ digits[Precision] = 1
              \/ \E n \in Precision + 2 .. Len(digits) : digits[n] = 1
        THEN PlusOne(SubSeq(digits, 1, Precision))
        ELSE SubSeq(digits, 1, Precision),
     exp |-> exp + Len(digits) - Precision]

\* count / total as a float, 0 < count <= total
FloatQuotient(count, total) ==
    RoundToFloat(
        QuotientDigits(Doubled(count, Doublings(count, total)) - total, total,
                       Precision, <<1>>).digits,
        QuotientDigits(Doubled(count, Doublings(count, total)) - total, total,
                       Precision, <<1>>).inexact,
        0 - Doublings(count, total) - Precision)

\* The binary digits times k, with the carry from the digits to the right
RECURSIVE TimesDigits(_, _, _, _)
TimesDigits(digits, k, carry, found) ==
    IF digits = <<>>
    THEN IF carry = 0 THEN found
         ELSE TimesDigits(<<>>, k, carry \div 2, <<carry % 2>> \o found)
    ELSE TimesDigits(SubSeq(digits, 1, Len(digits) - 1), k,
                     (digits[Len(digits)] * k + carry) \div 2,
                     <<(digits[Len(digits)] * k + carry) % 2>> \o found)

\* float * k for a small integer k
FloatTimes(x, k) == RoundToFloat(TimesDigits(x.digits, k, 0, <<>>), FALSE, x.exp)

\* The number the binary digits write
RECURSIVE DigitsValue(_)
DigitsValue(digits) ==
    IF digits = <<>> THEN 0
    ELSE 2 * DigitsValue(SubSeq(digits, 1, Len(digits) - 1)) + digits[Len(digits)]

\* int(x) of a float x >= 0 below 2^Precision
FloatToInt(x) ==
    IF Len(x.digits) + x.exp <= 0 THEN 0
    ELSE DigitsValue(SubSeq(x.digits, 1, Len(x.digits) + x.exp))

\* The percentage without the division by the number of files
ProgressValue_NoDivision(count, total) == count * 100

\* The percentage rounded to the nearest integer
ProgressValue_Rounded(count, total) == (count * 200 + total) \div (2 * total)

\* int(count / total * 100) in this arithmetic
FloatPercentage(count, total) ==
    IF count = 0 THEN 0 ELSE FloatToInt(FloatTimes(FloatQuotient(count, total), 100))

\* The values of line 222 for the lists a run of the model can have, computed
\* once
Percentages ==
    [total \in 1..MaxFiles |-> [count \in 0..total |-> FloatPercentage(count, total)]]

\* run(), line 222: int(i / len(pathlist) * 100)
ProgressValue(count, total) == Percentages[total][count]

\* An empty dict ({} of lines 155-156)
EmptyDict == <<>>

\* The result of the try body of one loop iteration: what it raised (exc, NoExc
\* if nothing), the values of artist_data, album_data, metadata_dict and
\* file_info when it ended, the file system it left, the target it planned
\* (its text as destination_path, its parts as target, <<>> if it planned
\* none), whether the target existed at the check of line 200 and what
\* _copy_file wrote.
TryResult(exc, artist_data, album_data, metadata_dict, file_info, f, target, existed, wrote) ==
    [exc |-> exc, artist_data |-> artist_data, album_data |-> album_data,
     metadata_dict |-> metadata_dict, file_info |-> file_info, fs |-> f,
     target |-> PathParts(target), destination_path |-> target,
     existed |-> existed, wrote |-> wrote]

\* The placement without the existence check of line 200
PlaceFile_NoExistenceCheck(f, fault, scan, metadata_dict, path_in_str, file_name, new_location, target, c) ==
    TryResult(c.exc, scan.artist_data, scan.album_data, metadata_dict,
              EmptyDict, c.fs, target, FALSE, c.wrote)

\* The placement that records an existing target and copies over it all the same
PlaceFile_CopiesAnyway(f, fault, scan, metadata_dict, path_in_str, file_name, new_location, target, c) ==
    IF Exists(f, PathParts(target))
    THEN TryResult(NoExc, scan.artist_data, scan.album_data, metadata_dict,
                   _handle_existing_file(file_name, new_location, path_in_str),
                   WriteFile(f, PathParts(target), "copied"), target, TRUE, "no")
    ELSE TryResult(c.exc, scan.artist_data, scan.album_data, metadata_dict,
                   EmptyDict, c.fs, target, FALSE, c.wrote)

\* run(), lines 199-206: the existence check, then the skip record or the copy
PlaceFile(f, fault, scan, metadata_dict, path_in_str, file_name, new_location, target, c) ==
    IF Exists(f, PathParts(target))
    THEN TryResult(NoExc, scan.artist_data, scan.album_data, metadata_dict,
                   _handle_existing_file(file_name, new_location, path_in_str),
                   f, target, TRUE, "no")
    ELSE TryResult(c.exc, scan.artist_data, scan.album_data, metadata_dict,
                   EmptyDict, c.fs, target, FALSE, c.wrote)

\* run(), lines 199-206 for the target f"{new_location}/{file_name}"
LocateFile(f, fault, scan, metadata_dict, path_in_str, file_name, new_location, target) ==
    PlaceFile(f, fault, scan, metadata_dict, path_in_str, file_name, new_location, target,
              _copy_file(f, path_in_str, target, fault))

\* run(), lines 194-206 for the cleaned artist and album
BuildLocation(f, fault, scan, metadata_dict, path_in_str, file_name, new_location) ==
    LocateFile(f, fault, scan, metadata_dict, path_in_str, file_name, new_location,
               TargetPath(new_location, file_name))

\* The plan with clean_filename applied to the artist only
PlanFile_AlbumAsIs(f, flag, fault, scan, metadata_dict, path_in_str, file_name, artist, album) ==
    BuildLocation(f, fault, scan, metadata_dict, path_in_str, file_name,
                  NewLocation(clean_filename(flag, artist), album))

\* run(), lines 190-206: the segments are cleaned, the location is built
PlanFile(f, flag, fault, scan, metadata_dict, path_in_str, file_name, artist, album) ==
    BuildLocation(f, fault, scan, metadata_dict, path_in_str, file_name,
                  NewLocation(clean_filename(flag, artist), clean_filename(flag, album)))

\* run(), lines 174-206: the check that both values were found, their
\* conversion to text, and the placement
ResolveFile(f, flag, fault, scan, metadata_dict, path_in_str, file_name) ==
    IF scan.artist_data = EmptyStr \/ scan.album_data = EmptyStr
    THEN TryResult(NotFoundMsg, scan.artist_data, scan.album_data, metadata_dict,
                   EmptyDict, f, <<>>, FALSE, "no")
    ELSE IF IndexFails(scan.artist_data) \/ IndexFails(scan.album_data)
    THEN TryResult(IndexErrorMsg, scan.artist_data, scan.album_data, metadata_dict,
                   EmptyDict, f, <<>>, FALSE, "no")
    ELSE PlanFile(f, flag, fault, scan, metadata_dict, path_in_str, file_name,
                  FirstText(scan.artist_data), FirstText(scan.album_data))

\* run(), lines 158-206: the body of the try statement for one file
TryBody(file, f, flag, fault) ==
    IF file.meta.state = "error"
    THEN TryResult(file.meta.msg, EmptyStr, EmptyStr, EmptyDict, EmptyDict, f, <<>>, FALSE, "no")
    ELSE IF file.meta.state = "none"
    THEN TryResult(NoneTypeMsg, EmptyStr, EmptyStr, EmptyDict, EmptyDict, f, <<>>, FALSE, "no")
    ELSE ResolveFile(f, flag, fault, ScanItems(file.meta.tags, EmptyStr, EmptyStr),
                     file.meta.tags, PathInStr(file.path), FileName(PathInStr(file.path)))

\* The outcome of an iteration, by the list of recall_files it appended to
OutcomeKind(t) ==
    IF t.exc # NoExc THEN "Errored" ELSE IF t.existed THEN "SkippedExisting" ELSE "Moved"

\* run(), lines 215-222, and the history record of the iteration: with the
\* file_info the iteration ends with, whether the finally clause counts the file
Finally(path, t, file_info, recall) ==
    [file_info |-> file_info,
     recall_files |-> recall,
     fs |-> t.fs,
     counted |-> CountsForProgress(file_info),
     history |-> [kind |-> OutcomeKind(t), path |-> path, target |-> t.target,
                  destination_path |-> t.destination_path,
                  existed |-> t.existed, wrote |-> t.wrote,
                  counted |-> CountsForProgress(file_info),
                  error |-> Get(file_info, "error")]]

\* run(), lines 201-213: the record appended for the file, if any
Record(file_name, t) ==
    IF t.exc # NoExc
    THEN _create_error_info(file_name, t.artist_data, t.album_data, t.metadata_dict, t.exc)
    ELSE t.file_info

\* The error record appended to both lists
AppendRecord_BothLists(t, file_info, recall) ==
    IF t.exc # NoExc
    THEN [recall EXCEPT !.error_files = Append(@, file_info),
                        !.replace_skip_files = Append(@, file_info)]
    ELSE IF t.existed
    THEN [recall EXCEPT !.replace_skip_files = Append(@, file_info)]
    ELSE recall

\* The record put at the front of its list
AppendRecord_Front(t, file_info, recall) ==
    IF t.exc # NoExc
    THEN [recall EXCEPT !.error_files = <<file_info>> \o @]
    ELSE IF t.existed
    THEN [recall EXCEPT !.replace_skip_files = <<file_info>> \o @]
    ELSE recall

\* run(), lines 203 and 213: the list the record is appended to
AppendRecord(t, file_info, recall) ==
    IF t.exc # NoExc
    THEN [recall EXCEPT !.error_files = Append(@, file_info)]
    ELSE IF t.existed
    THEN [recall EXCEPT !.replace_skip_files = Append(@, file_info)]
    ELSE recall

\* run(), lines 208-222: the except and finally clauses after a try body t
ExceptFinally(path, file_name, t, recall) ==
    Finally(path, t, Record(file_name, t), AppendRecord(t, Record(file_name, t), recall))

\* run(), lines 146-222: one iteration of the loop.  The result gives the
\* file_info the iteration ends with, the lists of recall_files, the file
\* system, whether the finally clause counted the file, and the history record.
LoopBody(file, f, flag, fault, recall) ==
    ExceptFinally(file.path, FileName(PathInStr(file.path)),
                  TryBody(file, f, flag, fault), recall)

(***************************************************************************)
(* The inputs: source trees, destination trees, the flag                    *)
(***************************************************************************)

Tags(items) == [state |-> "tags", tags |-> items, msg |-> <<>>]
\* mutagen.File returned None (the container was not recognised)
NoContainer == [state |-> "none", tags |-> <<>>, msg |-> <<>>]
\* mutagen.File raised
Unreadable == [state |-> "error", tags |-> <<>>, msg |-> <<"[mutagen] cannot read">>]

kARTIST == <<"A", "R", "T", "I", "S", "T">>
kTPE1 == <<"T", "P", "E", "1">>
kAuthor == <<"A", "u", "t", "h", "o", "r">>
kALBUM == <<"A", "L", "B", "U", "M">>
kTALB == <<"T", "A", "L", "B">>
kCALB == <<"©", "a", "l", "b">>
kTITLE == <<"T", "I", "T", "L", "E">>

\* run(), lines 101-117
extensions ==
    << <<".", "a", "i", "f">>, <<".", "a", "i", "f", "f">>, <<".", "a", "p", "e">>,
       <<".", "f", "l", "a", "c">>, <<".", "m", "4", "a">>, <<".", "m", "4", "b">>,
       <<".", "m", "4", "r">>, <<".", "m", "p", "2">>, <<".", "m", "p", "3">>,
       <<".", "m", "p", "4">>, <<".", "m", "p", "c">>, <<".", "o", "g", "g">>,
       <<".", "o", "p", "u", "s">>, <<".", "w", "a", "v">>, <<".", "w", "m", "a">> >>

\* The regular files a source tree is drawn from.  data stands for the
\* file's bytes.
FileSet ==
    { \* s/a.mp3: complete tags, target d/A/X/a.mp3
      [path |-> <<"s", "/", "a", ".", "m", "p", "3">>, isdir |-> FALSE, data |-> "bytes1",
       meta |-> Tags(<< <<kARTIST, ListVal(<<Plain(<<"A">>)>>)>>,
                        <<kALBUM, ListVal(<<Plain(<<"X">>)>>)>> >>)],
      \* s/x/a.mp3: two artist aliases and two album aliases, a wrapped value
      \* with an illegal character, a multi-valued album
      [path |-> <<"s", "/", "x", "/", "a", ".", "m", "p", "3">>, isdir |-> FALSE, data |-> "bytes2",
       meta |-> Tags(<< <<kTPE1, ListVal(<<Plain(<<"B">>)>>)>>,
                        <<kAuthor, ListVal(<<Asf(<<"A", ":">>)>>)>>,
                        <<kTALB, ListVal(<<Plain(<<"Y">>)>>)>>,
                        <<kCALB, ListVal(<<Plain(<<"X">>), Plain(<<"Y">>)>>)>> >>)],
      \* s/b.mp3: an artist tag only
      [path |-> <<"s", "/", "b", ".", "m", "p", "3">>, isdir |-> FALSE, data |-> "bytes3",
       meta |-> Tags(<< <<kTITLE, ListVal(<<Plain(<<"T">>)>>)>>,
                        <<kARTIST, ListVal(<<Plain(<<"A">>)>>)>> >>)],
      \* s/c.ogg: no container recognised
      [path |-> <<"s", "/", "c", ".", "o", "g", "g">>, isdir |-> FALSE, data |-> "bytes4",
       meta |-> NoContainer],
      \* s/d'.wma: complete tags, target d/B/X/d'.wma
      [path |-> <<"s", "/", "d", "'", ".", "w", "m", "a">>, isdir |-> FALSE, data |-> "bytes5",
       meta |-> Tags(<< <<kAuthor, ListVal(<<Asf(<<"B">>)>>)>>,
                        <<kALBUM, ListVal(<<Asf(<<" ", "X">>)>>)>> >>)],
      \* s/e.ape: an album tag and an artist tag whose value is the empty text
      [path |-> <<"s", "/", "e", ".", "a", "p", "e">>, isdir |-> FALSE, data |-> "bytes6",
       meta |-> Tags(<< <<kALBUM, ListVal(<<Plain(<<"X">>)>>)>>,
                        <<kARTIST, StrVal(<<>>)>> >>)],
      \* s/f.mp3: the tag reader raises
      [path |-> <<"s", "/", "f", ".", "m", "p", "3">>, isdir |-> FALSE, data |-> "bytes7",
       meta |-> Unreadable] }

\* The other entries a source tree is drawn from: a directory whose name ends
\* in an extension of the list (the tag reader raises when it is given a
\* directory), and a regular file whose name holds ".mp3" but does not end in it
OtherEntries ==
    { [path |-> <<"s", "/", "g", ".", "m", "p", "3">>, isdir |-> TRUE, data |-> "",
       meta |-> [state |-> "error", tags |-> <<>>, msg |-> <<"[Errno 21] Is a directory">>]],
      [path |-> <<"s", "/", "n", ".", "m", "p", "3", ".", "t", "x", "t">>,
       isdir |-> FALSE, data |-> "bytes9", meta |-> NoContainer] }

EntrySet == FileSet \cup OtherEntries

\* The source trees: up to MaxFiles entries
Trees == { t \in SUBSET EntrySet : Cardinality(t) <= MaxFiles }

\* str.endswith
EndsWith(s, suffix) ==
    /\ Len(s) >= Len(suffix)
    /\ SubSeq(s, Len(s) - Len(suffix) + 1, Len(s)) = suffix

\* Path(root).glob(f"**/*{extension}"): the entries under the root, at any
\* depth, whose name ends in the extension; glob does not look at the kind of
\* an entry
Glob(entries, extension) ==
    { e \in entries : EndsWith(FileName(PathInStr(e.path)), extension) }

\* The orders in which the file system can list a set of entries
Orderings(entries) ==
    { l \in [1..Cardinality(entries) -> entries] :
        \A a, b \in 1..Cardinality(entries) : a # b => l[a] # l[b] }

\* run(), lines 120-124: the lists the loop over the extensions from the k-th
\* on can build, one glob after the other
RECURSIVE Discover(_, _)
Discover(entries, k) ==
    IF k > Len(extensions) THEN {<<>>}
    ELSE { a \o b : a \in Orderings(Glob(entries, extensions[k])),
                    b \in Discover(entries, k + 1) }

\* The content of a file that is in the destination before the run
OldData == "old"

\* What the destination tree holds before the run: nothing, or a file
\* d/A/X/a.mp3 left by an earlier run, or a regular file named d/B.
DestinationSet ==
    { [dirs |-> {<<<<"d">>>>}, files |-> <<>>],
      [dirs |-> {<<<<"d">>>>, <<<<"d">>, <<"A">>>>, <<<<"d">>, <<"A">>, <<"X">>>>},
       files |-> [p \in {<<<<"d">>, <<"A">>, <<"X">>, <<"a", ".", "m", "p", "3">>>>}
                    |-> OldData]],
      [dirs |-> {<<<<"d">>>>},
       files |-> [p \in {<<<<"d">>, <<"B">>>>} |-> OldData]] }

\* The file system holding a source tree and a destination tree
InitialFs(entries, destination) ==
    LET sources == { PathParts(e.path) : e \in { x \in entries : ~x.isdir } }
        folders == { PathParts(e.path) : e \in { x \in entries : x.isdir } }
        Data(p) == (CHOOSE e \in entries : PathParts(e.path) = p).data
    IN  [dirs |-> destination.dirs \cup {<<selected_music_folder_path>>}
                    \cup UNION { Prefixes(Parent(p)) : p \in sources \cup folders }
                    \cup folders,
         files |-> [p \in sources \cup DOMAIN destination.files |->
                       IF p \in sources THEN Data(p) ELSE destination.files[p]]]

(***************************************************************************)
(* The run                                                                 *)
(***************************************************************************)

\* The file settings_jmo.json: absent, holding a JSON object (a sequence of
\* key/value pairs), or holding something json.load does not turn into a dict
NoFile == [state |-> "absent", dict |-> <<>>]
JsonFile(d) == [state |-> "json", dict |-> d]
BadFile == [state |-> "invalid", dict |-> <<>>]

\* dict.get(key, default) on a sequence of key/value pairs
DictGet(d, key, default) ==
    LET hits == { n \in 1..Len(d) : d[n][1] = key }
    IN  IF hits = {} THEN default
        ELSE d[CHOOSE n \in hits : \A m \in hits : m <= n][2]

\* load_settings that takes a missing key as false
load_settings_KeyRequired(file, current) ==
    IF file.state = "absent" THEN current
    ELSE DictGet(file.dict, "remove_illegal_chars", FALSE)

\* OrganizeThread.load_settings: the new value of self.remove_illegal_chars,
\* current being its value before the call
load_settings(file, current) ==
    IF file.state = "absent" THEN current
    ELSE DictGet(file.dict, "remove_illegal_chars", TRUE)

\* The settings files a thread can be constructed with
SettingsSet ==
    { NoFile, BadFile, JsonFile(<<>>), JsonFile(<< <<"mute_sound", TRUE>> >>),
      JsonFile(<< <<"remove_illegal_chars", TRUE>> >>),
      JsonFile(<< <<"mute_sound", FALSE>>, <<"remove_illegal_chars", FALSE>> >>) }

\* The settings files the runs are started with: one for each value of the flag
RunSettings ==
    { NoFile, JsonFile(<< <<"mute_sound", FALSE>>, <<"remove_illegal_chars", FALSE>> >>) }

\* No NotificationManager was constructed
NoManager == [calls |-> <<>>]

\* No SettingsWindow was constructed
NoWindow == [visible |-> FALSE]

\* An emitted signal: its name, its int argument (0 if it has none) and its
\* str argument ("" if it has none)
Event(sig, val, text) == [sig |-> sig, val |-> val, text |-> text]

\* run(), line 229
NoSongsText == "No songs were found in the selected folder."

Init ==
    /\ pc = "start"
    /\ tree \in Trees
    /\ pathlist = <<>>
    /\ settings_file \in RunSettings
    /\ remove_illegal_chars = load_settings(settings_file, TRUE)
    /\ \E destination \in DestinationSet : fs = InitialFs(tree, destination)
    /\ visited = 0
    /\ i = 0
    /\ recall_files = [error_files |-> <<>>, replace_skip_files |-> <<>>]
    /\ events = <<>>
    /\ finish_arg = <<>>
    /\ outcomes = <<>>
    /\ previous = <<>>
    /\ input_text = <<>>
    /\ cleaned = <<>>
    /\ window = NoWindow
    /\ notifier = NoManager

\* Start without the emission of the count
Start_NoCount ==
    /\ pc = "start"
    /\ pathlist' \in Discover(tree, 1)
    /\ pc' = IF Len(pathlist') # 0 THEN "loop" ELSE "empty"
    /\ recall_files' = [error_files |-> <<>>, replace_skip_files |-> <<>>]
    /\ i' = 0
    /\ UNCHANGED <<remove_illegal_chars, fs, visited, finish_arg, outcomes, events>>
    /\ UNCHANGED <<tree, previous, input_text, cleaned, settings_file, window, notifier>>

\* Start without the check of line 135
Start_AlwaysLoop ==
    /\ pc = "start"
    /\ pathlist' \in Discover(tree, 1)
    /\ events' = Append(events, Event("number_songs_signal", Len(pathlist'), ""))
    /\ pc' = "loop"
    /\ recall_files' = [error_files |-> <<>>, replace_skip_files |-> <<>>]
    /\ i' = 0
    /\ UNCHANGED <<remove_illegal_chars, fs, visited, finish_arg, outcomes>>
    /\ UNCHANGED <<tree, previous, input_text, cleaned, settings_file, window, notifier>>

\* run(), lines 119-143: discovery builds the list, the count is emitted, and
\* a non-empty run sets up recall_files and the counter
Start ==
    /\ pc = "start"
    /\ pathlist' \in Discover(tree, 1)
    /\ events' = Append(events, Event("number_songs_signal", Len(pathlist'), ""))
    /\ pc' = IF Len(pathlist') # 0 THEN "loop" ELSE "empty"
    /\ recall_files' = [error_files |-> <<>>, replace_skip_files |-> <<>>]
    /\ i' = 0
    /\ UNCHANGED <<remove_illegal_chars, fs, visited, finish_arg, outcomes>>
    /\ UNCHANGED <<tree, previous, input_text, cleaned, settings_file, window, notifier>>

\* The effect of one loop iteration with result r on the state of run()
Iterate(r) ==
    /\ recall_files' = r.recall_files
    /\ fs' = r.fs
    /\ i' = IF r.counted THEN i + 1 ELSE i
    /\ events' = IF r.counted
                 THEN Append(events, Event("music_progress_signal",
                                           ProgressValue(i + 1, Len(pathlist)), ""))
                 ELSE events
    /\ outcomes' = Append(outcomes, r.history)

\* The loop with an except clause that lets the exception leave run()
ProcessFile_Propagates ==
    /\ pc = "loop"
    /\ visited < Len(pathlist)
    /\ \E fault \in Faults :
         LET r == LoopBody(pathlist[visited + 1], fs, remove_illegal_chars, fault,
                           recall_files)
         IN  IF r.history.kind = "Errored"
             THEN /\ pc' = "aborted"
                  /\ fs' = r.fs
                  /\ UNCHANGED <<visited, i, recall_files, events, outcomes>>
             ELSE /\ Iterate(r)
                  /\ visited' = visited + 1
                  /\ UNCHANGED pc
    /\ UNCHANGED <<pathlist, remove_illegal_chars, finish_arg>>
    /\ UNCHANGED <<tree, previous, input_text, cleaned, settings_file, window, notifier>>

\* run(), lines 146-222: one iteration of the loop
ProcessFile ==
    /\ pc = "loop"
    /\ visited < Len(pathlist)
    /\ \E fault \in Faults :
         Iterate(LoopBody(pathlist[visited + 1], fs, remove_illegal_chars, fault,
                          recall_files))
    /\ visited' = visited + 1
    /\ UNCHANGED <<pc, pathlist, remove_illegal_chars, finish_arg>>
    /\ UNCHANGED <<tree, previous, input_text, cleaned, settings_file, window, notifier>>

\* run(), line 225
Finish ==
    /\ pc = "loop"
    /\ visited = Len(pathlist)
    /\ events' = Append(events, Event("organize_finish_signal", 0, ""))
    /\ finish_arg' = Append(finish_arg, recall_files)
    /\ pc' = "finished"
    /\ UNCHANGED <<pathlist, remove_illegal_chars, fs, visited, i, recall_files, outcomes>>
    /\ UNCHANGED <<tree, previous, input_text, cleaned, settings_file, window, notifier>>

\* run(), lines 227-231
NoSongs ==
    /\ pc = "empty"
    /\ events' = events \o <<Event("custom_dialog_signal", 0, NoSongsText),
                             Event("kill_thread_signal", 0, "organize")>>
    /\ pc' = "killed"
    /\ UNCHANGED <<pathlist, remove_illegal_chars, fs, visited, i, recall_files,
                   finish_arg, outcomes>>
    /\ UNCHANGED <<tree, previous, input_text, cleaned, settings_file, window, notifier>>

Next == Start \/ ProcessFile \/ Finish \/ NoSongs

Spec == Init /\ [][Next]_vars

\* run(), line 146: the loop moves on to the next file.  ProcessFile is enabled
\* whenever the loop has a file left (LoopBody is defined for every file and
\* every file system), and it is the only action that advances visited.
LoopStep ==
    /\ pc = "loop"
    /\ visited < Len(pathlist)
    /\ visited' = visited + 1

\* run(), lines 119-135: run() leaves its first statements.  Start is enabled
\* whenever run() has not begun (Discover is never empty), and it is the only
\* action that leaves "start".
StartStep ==
    /\ pc = "start"
    /\ pc' \in {"loop", "empty"}

\* run() is the body of a started thread: it keeps running until it returns,
\* so no statement of it is postponed forever.
FairSpec ==
    Spec /\ WF_pc(StartStep) /\ WF_visited(LoopStep) /\ WF_vars(Finish) /\ WF_vars(NoSongs)

(***************************************************************************)
(* A second run on the trees the first run left                            *)
(***************************************************************************)

\* What is kept of a run that ended
PastRun == [pathlist |-> pathlist, outcomes |-> outcomes, fs |-> fs]

\* The restart with the flag of the settings file changed between the runs
Rerun_OtherFlag ==
    /\ pc \in {"finished", "killed"}
    /\ previous = <<>>
    /\ previous' = <<PastRun>>
    /\ pc' = "start"
    /\ pathlist' = <<>>
    /\ remove_illegal_chars' = ~remove_illegal_chars
    /\ visited' = 0
    /\ i' = 0
    /\ recall_files' = [error_files |-> <<>>, replace_skip_files |-> <<>>]
    /\ events' = <<>>
    /\ finish_arg' = <<>>
    /\ outcomes' = <<>>
    /\ UNCHANGED <<tree, fs, input_text, cleaned, settings_file, window, notifier>>

\* After run() returned, a new OrganizeThread is made for the same two
\* folders and started: __init__ reads the same settings file, run() starts
\* from its first line on the file system the first run left.
Rerun ==
    /\ pc \in {"finished", "killed"}
    /\ previous = <<>>
    /\ previous' = <<PastRun>>
    /\ pc' = "start"
    /\ pathlist' = <<>>
    /\ visited' = 0
    /\ i' = 0
    /\ recall_files' = [error_files |-> <<>>, replace_skip_files |-> <<>>]
    /\ events' = <<>>
    /\ finish_arg' = <<>>
    /\ outcomes' = <<>>
    /\ UNCHANGED <<tree, remove_illegal_chars, fs, input_text, cleaned, settings_file, window, notifier>>

\* The entries the source tree of a restarted run is drawn from: s/a.mp3 and
\* s/x/a.mp3 (one file name) and s/b.mp3 (no album)
RerunEntries ==
    { e \in EntrySet : FileName(PathInStr(e.path))[1] \in {"a", "b"} }

InitRerun == Init /\ tree \subseteq RerunEntries /\ Cardinality(tree) <= MaxRerunFiles

NextRerun == Next \/ Rerun

RerunSpec == InitRerun /\ [][NextRerun]_vars

(***************************************************************************)
(* Runs on files whose tag values are not names                            *)
(***************************************************************************)

\* Regular files whose artist or album is "..", ".", a text clean_filename
\* empties or a text with "/" in it, and one file with ordinary values
OddFileSet ==
    { [path |-> <<"s", "/", "p", ".", "m", "p", "3">>, isdir |-> FALSE, data |-> "bytesp",
       meta |-> Tags(<< <<kARTIST, ListVal(<<Plain(<<".", ".">>)>>)>>,
                        <<kALBUM, ListVal(<<Plain(<<"X">>)>>)>> >>)],
      [path |-> <<"s", "/", "q", ".", "m", "p", "3">>, isdir |-> FALSE, data |-> "bytesq",
       meta |-> Tags(<< <<kARTIST, ListVal(<<Plain(<<":", " ">>)>>)>>,
                        <<kALBUM, ListVal(<<Plain(<<"X">>)>>)>> >>)],
      [path |-> <<"s", "/", "r", ".", "m", "p", "3">>, isdir |-> FALSE, data |-> "bytesr",
       meta |-> Tags(<< <<kARTIST, ListVal(<<Plain(<<"A">>)>>)>>,
                        <<kALBUM, ListVal(<<Plain(<<".">>)>>)>> >>)],
      [path |-> <<"s", "/", "t", ".", "m", "p", "3">>, isdir |-> FALSE, data |-> "bytest",
       meta |-> Tags(<< <<kARTIST, ListVal(<<Plain(<<"A">>)>>)>>,
                        <<kALBUM, ListVal(<<Plain(<<".", ".">>)>>)>> >>)],
      [path |-> <<"s", "/", "u", ".", "m", "p", "3">>, isdir |-> FALSE, data |-> "bytesu",
       meta |-> Tags(<< <<kARTIST, ListVal(<<Plain(<<"N">>)>>)>>,
                        <<kALBUM, ListVal(<<Plain(<<".", ".", "/", "t", ".", "m", "p", "3">>)>>)>> >>)],
      [path |-> <<"s", "/", "a", ".", "m", "p", "3">>, isdir |-> FALSE, data |-> "bytes1",
       meta |-> Tags(<< <<kARTIST, ListVal(<<Plain(<<"A">>)>>)>>,
                        <<kALBUM, ListVal(<<Plain(<<"X">>)>>)>> >>)] }

\* What the destination tree holds before such a run: as in DestinationSet,
\* or a file d/t.mp3 directly under the root
OddDestinationSet ==
    DestinationSet \cup
    { [dirs |-> {<<<<"d">>>>},
       files |-> [p \in {<<<<"d">>, <<"t", ".", "m", "p", "3">>>>} |-> OldData]] }

InitOdd ==
    /\ pc = "start"
    /\ tree \in { t \in SUBSET OddFileSet : Cardinality(t) <= MaxOddFiles }
    /\ pathlist = <<>>
    /\ settings_file \in RunSettings
    /\ remove_illegal_chars = load_settings(settings_file, TRUE)
    /\ \E destination \in OddDestinationSet : fs = InitialFs(tree, destination)
    /\ visited = 0
    /\ i = 0
    /\ recall_files = [error_files |-> <<>>, replace_skip_files |-> <<>>]
    /\ events = <<>>
    /\ finish_arg = <<>>
    /\ outcomes = <<>>
    /\ previous = <<>>
    /\ input_text = <<>>
    /\ cleaned = <<>>
    /\ window = NoWindow
    /\ notifier = NoManager

OddSpec == InitOdd /\ [][Next]_vars

(***************************************************************************)
(* The construction of the thread                                          *)
(***************************************************************************)

\* Before OrganizeThread(info) is called: any settings file, a source tree
\* of at most one entry
InitSettings ==
    /\ pc = "new"
    /\ settings_file \in SettingsSet
    /\ remove_illegal_chars = TRUE
    /\ tree \in { t \in Trees : Cardinality(t) <= 1 }
    /\ pathlist = <<>>
    /\ \E destination \in DestinationSet : fs = InitialFs(tree, destination)
    /\ visited = 0
    /\ i = 0
    /\ recall_files = [error_files |-> <<>>, replace_skip_files |-> <<>>]
    /\ events = <<>>
    /\ finish_arg = <<>>
    /\ outcomes = <<>>
    /\ previous = <<>>
    /\ input_text = <<>>
    /\ cleaned = <<>>
    /\ window = NoWindow
    /\ notifier = NoManager

\* __init__, lines 50-53, and load_settings: the default of line 52, then the
\* value of the file; json.load or settings.get raising leaves __init__, and
\* no thread is made
Construct ==
    /\ pc = "new"
    /\ IF settings_file.state = "invalid"
       THEN pc' = "raised" /\ UNCHANGED remove_illegal_chars
       ELSE pc' = "start" /\ remove_illegal_chars' = load_settings(settings_file, TRUE)
    /\ UNCHANGED <<tree, pathlist, fs, visited, i, recall_files, events, finish_arg,
                   outcomes, previous, input_text, cleaned, settings_file, window, notifier>>

NextSettings == Construct \/ Next

SettingsSpec == InitSettings /\ [][NextSettings]_vars

(***************************************************************************)
(* clean_filename on its own                                               *)
(***************************************************************************)

\* The characters the texts are built from: one of the characters of the
\* translate table, the four characters of the replace calls, the dot, a
\* space and a letter
Alphabet == {":", "/", "\\", "\"", "'", ".", " ", "a"}

\* My/Band: "Best"
BandText ==
    <<"M", "y", "/", "B", "a", "n", "d", ":", " ", "\"", "B", "e", "s", "t", "\"">>

\* A text with every character clean_filename deletes, runs of dots of every
\* length up to seven, and white space at both ends and inside
FullText ==
    <<"\t", " ", "a", ":", "*", "?", "<", ">", "|", "/", "\\", "\"", "'", ".", "b",
      ".", ".", " ", "c", ".", ".", ".", "d", ".", ".", ".", ".", "e", ".", ".", ".",
      ".", ".", "f", ".", ".", ".", ".", ".", ".", "g", ".", ".", ".", ".", ".", ".",
      ".", "\n">>

Texts == UNION { [1..n -> Alphabet] : n \in 0..MaxLen } \cup {BandText, FullText}

InitClean ==
    /\ pc = "clean"
    /\ input_text \in Texts
    /\ settings_file \in RunSettings
    /\ remove_illegal_chars = load_settings(settings_file, TRUE)
    /\ cleaned = <<>>
    /\ tree = {}
    /\ pathlist = <<>>
    /\ fs = InitialFs({}, [dirs |-> {<<selected_destination_folder_path>>}, files |-> <<>>])
    /\ visited = 0
    /\ i = 0
    /\ recall_files = [error_files |-> <<>>, replace_skip_files |-> <<>>]
    /\ events = <<>>
    /\ finish_arg = <<>>
    /\ outcomes = <<>>
    /\ previous = <<>>
    /\ window = NoWindow
    /\ notifier = NoManager

\* clean_filename is called with the text
CleanOnce ==
    /\ pc = "clean"
    /\ cleaned = <<>>
    /\ cleaned' = <<clean_filename(remove_illegal_chars, input_text)>>
    /\ UNCHANGED <<pc, tree, pathlist, remove_illegal_chars, fs, visited, i, recall_files,
                   events, finish_arg, outcomes, previous, input_text, settings_file, window, notifier>>

\* clean_filename is called with the text it returned
CleanAgain ==
    /\ pc = "clean"
    /\ Len(cleaned) = 1
    /\ cleaned' = Append(cleaned, clean_filename(remove_illegal_chars, cleaned[1]))
    /\ UNCHANGED <<pc, tree, pathlist, remove_illegal_chars, fs, visited, i, recall_files,
                   events, finish_arg, outcomes, previous, input_text, settings_file, window, notifier>>

NextClean == CleanOnce \/ CleanAgain

CleanSpec == InitClean /\ [][NextClean]_vars

(***************************************************************************)
(* The settings window                                                     *)
(***************************************************************************)

\* dict.get(key): the value of the key, None when the key is missing
SettingsGet(d, key) == IF key \in DOMAIN d THEN d[key] ELSE "None"

\* SettingsWindow._settings_changed, lines 85-89
_settings_changed(w) ==
    \E key \in DOMAIN w.settings :
        SettingsGet(w.settings, key) # SettingsGet(w._original_settings, key)

\* The signals SettingsWindow.closeEvent emits, in order (lines 77-79)
closeEvent(w) ==
    (IF _settings_changed(w) THEN <<"settings_changed">> ELSE <<>>) \o <<"windowClosed">>

\* The signals SettingsWindow.close emits, in order: QWidget.close() sends the
\* close event to closeEvent (line 378), then line 379 emits
close(w) == closeEvent(w) \o <<"windowClosed">>

\* A close of the window: how it came, whether a setting differed, the
\* signals it emitted, and the window hidden once the close event is accepted
Closed(w, via, emitted) ==
    [w EXCEPT !.visible = FALSE,
              !.signals = @ \o emitted,
              !.closes = Append(@, [via |-> via, differs |-> _settings_changed(w),
                                    emitted |-> emitted]),
              !.calls = @ + 1]

\* The dictionaries a window is constructed with
WindowSettings ==
    { [key \in {} |-> "None"],
      [key \in {"mute_sound"} |-> "False"],
      [key \in {"mute_sound", "remove_illegal_chars"} |->
          IF key = "mute_sound" THEN "True" ELSE "False"] }

\* The folders a dialog returns, "" when it is cancelled
Folders == {"", "m", "n"}

\* The files settings_jmo.json a window is constructed beside
WindowFiles ==
    { NoFile, BadFile,
      JsonFile(<< <<"music_folder_path", "m">>, <<"mute_sound", TRUE>> >>) }

\* SettingsWindow.load_settings, lines 278-299: the attributes and the state
\* of the two checkable buttons after it
WindowLoaded(w, file) ==
    IF file.state # "json" THEN w
    ELSE [w EXCEPT
            !.music_folder_path = DictGet(file.dict, "music_folder_path", ""),
            !.destination_folder_path = DictGet(file.dict, "destination_folder_path", ""),
            !.sound_checkbox = DictGet(file.dict, "mute_sound", FALSE),
            !.illegal_chars_checkbox = DictGet(file.dict, "remove_illegal_chars", TRUE)]

\* The dictionary SettingsWindow.save_settings writes, lines 304-310, for a
\* window of version "1"
SavedDict(w) ==
    << <<"music_folder_path", w.music_folder_path>>,
       <<"destination_folder_path", w.destination_folder_path>>,
       <<"mute_sound", w.sound_checkbox>>,
       <<"remove_illegal_chars", w.illegal_chars_checkbox>>,
       <<"version", "1">> >>

\* SettingsWindow._save_settings, lines 348-359: ConfigManager.save returns
\* (saved) and settings_changed is emitted, or raises, which is caught
_save_settings(w, saved) ==
    [w EXCEPT !.signals = IF saved THEN Append(@, "settings_changed") ELSE @]

\* SettingsWindow.__init__, lines 34-66: the two copies of the dictionary,
\* the buttons unchecked, and what load_settings reads from the file
NewWindow(settings, file) ==
    WindowLoaded([settings |-> settings, _original_settings |-> settings,
                  music_folder_path |-> "", destination_folder_path |-> "",
                  sound_checkbox |-> FALSE, illegal_chars_checkbox |-> FALSE,
                  reset_timer |-> FALSE, visible |-> FALSE, dialogs |-> <<>>,
                  signals |-> <<>>, closes |-> <<>>, calls |-> 0],
                 file)

InitWindow ==
    /\ pc = "window"
    /\ settings_file \in WindowFiles
    /\ \E settings \in WindowSettings : window = NewWindow(settings, settings_file)
    /\ remove_illegal_chars = TRUE
    /\ input_text = <<>>
    /\ cleaned = <<>>
    /\ tree = {}
    /\ pathlist = <<>>
    /\ fs = InitialFs({}, [dirs |-> {<<selected_destination_folder_path>>}, files |-> <<>>])
    /\ visited = 0
    /\ i = 0
    /\ recall_files = [error_files |-> <<>>, replace_skip_files |-> <<>>]
    /\ events = <<>>
    /\ finish_arg = <<>>
    /\ outcomes = <<>>
    /\ previous = <<>>
    /\ notifier = NoManager

\* What no handler of the window touches
WindowOnly ==
    UNCHANGED <<pc, tree, pathlist, remove_illegal_chars, fs, visited, i, recall_files,
                events, finish_arg, outcomes, previous, input_text, cleaned, notifier>>

\* A handler of the window is called
Called(w) == [w EXCEPT !.calls = @ + 1]

\* Qt delivers a show event: SettingsWindow.showEvent, lines 68-72.  It comes
\* when a hidden window is shown, and again to a visible one (a minimised
\* window restored); the handler emits windowOpened either way
ShowWindow ==
    /\ pc = "window"
    /\ window.calls < MaxCalls
    /\ window' = Called([window EXCEPT !.visible = TRUE,
                                       !.signals = Append(@, "windowOpened")])
    /\ UNCHANGED settings_file
    /\ WindowOnly

\* SettingsWindow.select_music_folder up to its dialog, lines 193-205:
\* QFileDialog.getExistingDirectory runs an event loop of its own, in which
\* other handlers of the window run before the dialog returns
SelectMusicFolder ==
    /\ pc = "window"
    /\ window.calls < MaxCalls
    /\ window' = Called([window EXCEPT !.dialogs = Append(@, "music")])
    /\ UNCHANGED settings_file
    /\ WindowOnly

\* The dialog of select_music_folder returns folder_path: lines 207-221, with
\* _validate_folder_path returning valid
MusicFolderSelected ==
    /\ pc = "window"
    /\ window.dialogs # <<>>
    /\ window.dialogs[Len(window.dialogs)] = "music"
    /\ \E folder_path \in Folders, valid \in BOOLEAN, saved \in BOOLEAN :
         window' =
             IF folder_path = "" \/ ~valid
             THEN [window EXCEPT !.dialogs = SubSeq(@, 1, Len(@) - 1)]
             ELSE _save_settings([window EXCEPT !.dialogs = SubSeq(@, 1, Len(@) - 1),
                                                !.music_folder_path = folder_path],
                                 saved)
    /\ UNCHANGED settings_file
    /\ WindowOnly

\* SettingsWindow.clear_music_folder, lines 239-246
ClearMusicFolder ==
    /\ pc = "window"
    /\ window.calls < MaxCalls
    /\ \E saved \in BOOLEAN :
         window' = Called(_save_settings([window EXCEPT !.music_folder_path = ""], saved))
    /\ UNCHANGED settings_file
    /\ WindowOnly

\* SettingsWindow.select_destination_folder up to its dialog, lines 248-253
SelectDestinationFolder ==
    /\ pc = "window"
    /\ window.calls < MaxCalls
    /\ window' = Called([window EXCEPT !.dialogs = Append(@, "destination")])
    /\ UNCHANGED settings_file
    /\ WindowOnly

\* The dialog of select_destination_folder returns: lines 255-267
DestinationFolderSelected ==
    /\ pc = "window"
    /\ window.dialogs # <<>>
    /\ window.dialogs[Len(window.dialogs)] = "destination"
    /\ \E destination_folder_path \in Folders, valid \in BOOLEAN, saved \in BOOLEAN :
         window' =
             IF destination_folder_path = "" \/ ~valid
             THEN [window EXCEPT !.dialogs = SubSeq(@, 1, Len(@) - 1)]
             ELSE _save_settings(
                      [window EXCEPT !.dialogs = SubSeq(@, 1, Len(@) - 1),
                                     !.destination_folder_path = destination_folder_path],
                      saved)
    /\ UNCHANGED settings_file
    /\ WindowOnly

\* SettingsWindow.clear_destination_folder, lines 269-276
ClearDestinationFolder ==
    /\ pc = "window"
    /\ window.calls < MaxCalls
    /\ \E saved \in BOOLEAN :
         window' = Called(_save_settings([window EXCEPT !.destination_folder_path = ""],
                                         saved))
    /\ UNCHANGED settings_file
    /\ WindowOnly

\* SettingsWindow.load_settings is called again, lines 278-299
LoadSettings ==
    /\ pc = "window"
    /\ window.calls < MaxCalls
    /\ window' = Called(WindowLoaded(window, settings_file))
    /\ UNCHANGED settings_file
    /\ WindowOnly

\* What open(..., "w") and json.dump of save_settings can come to, lines
\* 312-313: the file written; the open failing; or the open truncating the
\* file and the write failing after it (full disk, file size limit)
SaveResults == {"written", "not_opened", "truncated"}

\* settings_jmo.json after save_settings wrote the dictionary saved with the
\* given result: open(..., "w") empties the file before anything is written,
\* and an empty or half-written file is not JSON
SavedFile(file, saved, result) ==
    IF result = "written" THEN JsonFile(saved)
    ELSE IF result = "truncated" THEN BadFile
    ELSE file

\* SettingsWindow.save_settings, lines 301-318: the file is written, or
\* RuntimeError is raised with the file as the failure left it
SaveSettings ==
    /\ pc = "window"
    /\ window.calls < MaxCalls
    /\ window' = Called(window)
    /\ \E result \in SaveResults :
         settings_file' = SavedFile(settings_file, SavedDict(window), result)
    /\ WindowOnly

\* The window with the default values of reset_settings, lines 323-326
Defaults(w) ==
    [w EXCEPT !.music_folder_path = "", !.destination_folder_path = "",
              !.sound_checkbox = FALSE, !.illegal_chars_checkbox = TRUE]

\* SettingsWindow.reset_settings, lines 320-341: the defaults, the file
\* written and the timer started, or save_settings raising before the timer
ResetSettings ==
    /\ pc = "window"
    /\ window.calls < MaxCalls
    /\ \E result \in SaveResults :
         /\ window' = Called([Defaults(window) EXCEPT
                                 !.reset_timer = IF result = "written" THEN TRUE ELSE @])
         /\ settings_file' = SavedFile(settings_file, SavedDict(Defaults(window)), result)
    /\ WindowOnly

\* SettingsWindow.close() is called, lines 376-380: by the close button
\* (line 117) of a visible window, or by other code on any window.
\* QWidget.close() delivers the close event to closeEvent; delivered is
\* whether it does so for a window that is not visible.
CloseCalled ==
    /\ pc = "window"
    /\ window.calls < MaxCalls
    /\ \E delivered \in (IF window.visible THEN {TRUE} ELSE BOOLEAN) :
         window' = Closed(window, "close",
                          IF delivered THEN close(window) ELSE <<"windowClosed">>)
    /\ UNCHANGED settings_file
    /\ WindowOnly

\* The window system closes the window: Qt delivers the close event to
\* closeEvent, lines 74-84, without a call of close()
CloseEventDelivered ==
    /\ pc = "window"
    /\ window.calls < MaxCalls
    /\ window.visible
    /\ window' = Closed(window, "event", closeEvent(window))
    /\ UNCHANGED settings_file
    /\ WindowOnly

NextWindow ==
    \/ ShowWindow
    \/ SelectMusicFolder
    \/ MusicFolderSelected
    \/ ClearMusicFolder
    \/ SelectDestinationFolder
    \/ DestinationFolderSelected
    \/ ClearDestinationFolder
    \/ LoadSettings
    \/ SaveSettings
    \/ ResetSettings
    \/ CloseCalled
    \/ CloseEventDelivered

WindowSpec == InitWindow /\ [][NextWindow]_vars

(***************************************************************************)
(* The notification manager                                                *)
(***************************************************************************)

\* platform.system().lower()
Systems == {"windows", "linux", "darwin"}

\* The sound types play_notification is called with
SoundTypes == {"complete", "error"}

\* NotificationManager._create_strategy, lines 142-148
_create_strategy(system) == IF system = "windows" THEN "Windows" ELSE "Dummy"

\* is_available of the strategy: WindowsNotificationStrategy, lines 70-77,
\* with registry = the key AppEvents\Schemes opens; on Windows winsound and
\* winreg are loaded; DummyNotificationStrategy, lines 121-122
is_available(strategy, registry) == strategy = "Windows" /\ registry

\* play_sound of the strategy: WindowsNotificationStrategy, lines 61-68,
\* with sound_ok = PlaySound returns; DummyNotificationStrategy, lines 118-119
play_sound(strategy, sound_ok) == strategy = "Windows" /\ sound_ok

\* self.settings.get("mute_sound", False), line 163
Muted(settings) ==
    IF "mute_sound" \in DOMAIN settings THEN settings["mute_sound"] ELSE FALSE

\* The separator of the segments of a path as str(Path) writes it
Separator(system) == IF system = "windows" THEN "\\" ELSE "/"

\* PlatformPaths.get_resource_path, platform_utils.py lines 37-41, as text:
\* under sys._MEIPASS in a PyInstaller bundle, else under the directory of the
\* package (Path(__file__).parent.parent)
get_resource_path(system, bundled, resource_name) ==
    (IF system = "windows"
     THEN (IF bundled THEN "C:\\bundle" ELSE "C:\\app\\jellyfin_music_organizer")
     ELSE (IF bundled THEN "/bundle" ELSE "/app/jellyfin_music_organizer"))
      \o Separator(system) \o "resources" \o Separator(system) \o resource_name

\* The message of the FileNotFoundError of line 185
\* with str(sound_file) of line 183
FallbackMsg(m, sound_type) ==
    "Fallback sound not found: "
      \o get_resource_path(m.system, m.bundled, "sounds")
      \o Separator(m.system) \o sound_type \o ".wav"

\* _play_fallback that lets its failure reach play_notification
_play_fallback_Raises(m, sound_type) ==
    IF sound_type \notin m.sounds
    THEN [played |-> FALSE, exc |-> FallbackMsg(m, sound_type), playing |-> m.playing,
          emitted |-> <<>>]
    ELSE [played |-> TRUE, exc |-> "", playing |-> sound_type, emitted |-> <<>>]

\* NotificationManager._play_fallback, lines 177-191: what it played, the
\* exception it lets out (none: it catches all), the media of the player,
\* and the signals it emitted
_play_fallback(m, sound_type) ==
    IF sound_type \notin m.sounds
    THEN [played |-> FALSE, exc |-> "", playing |-> m.playing,
          emitted |-> <<[sig |-> "error_signal", arg |-> FallbackMsg(m, sound_type)]>>]
    ELSE [played |-> TRUE, exc |-> "", playing |-> sound_type, emitted |-> <<>>]

\* The record of one call of play_notification
Call(sound_type, muted, available, strategy_played, fallback, emitted) ==
    [sound_type |-> sound_type, muted |-> muted, available |-> available,
     strategy_played |-> strategy_played, fallback_tried |-> fallback # <<>>,
     fallback_played |-> fallback # <<>> /\ fallback[1].played,
     emitted |-> emitted]

\* Lines 168-171 of play_notification, once the fallback, if tried, is done
\* (fallback = <<>> when it was not tried)
AfterFallback(m, sound_type, available, strategy_played, fallback) ==
    LET emitted ==
            IF fallback # <<>> /\ fallback[1].exc # ""
            THEN fallback[1].emitted \o <<[sig |-> "error_signal", arg |-> fallback[1].exc]>>
            ELSE (IF fallback # <<>> THEN fallback[1].emitted ELSE <<>>)
                 \o <<[sig |-> "notification_played", arg |-> sound_type]>>
    IN  [m EXCEPT !.playing = IF fallback # <<>> THEN fallback[1].playing ELSE @,
                  !.signals = @ \o emitted,
                  !.calls = Append(@, Call(sound_type, FALSE, available, strategy_played,
                                           fallback, emitted))]

\* NotificationManager.play_notification, lines 160-175; sound_ok = PlaySound
\* returns when the strategy calls it.  NotificationConfig.get_sound returns
\* the name of the system sound.
play_notification(m, sound_type, sound_ok) ==
    LET strategy == _create_strategy(m.system)
        available == is_available(strategy, m.registry)
        strategy_played == available /\ play_sound(strategy, sound_ok)
    IN  IF Muted(m.settings)
        THEN [m EXCEPT !.calls = Append(@, Call(sound_type, TRUE, FALSE, FALSE, <<>>, <<>>))]
        ELSE AfterFallback(m, sound_type, available, strategy_played,
                           IF strategy_played THEN <<>>
                           ELSE <<_play_fallback(m, sound_type)>>)

\* The dictionaries the owner of the manager gives to its attribute settings
\* (line 139: empty after construction)
ManagerSettings ==
    { [key \in {} |-> FALSE],
      [key \in {"mute_sound"} |-> FALSE],
      [key \in {"mute_sound"} |-> TRUE] }

\* NotificationManager.__init__, lines 135-140, on some platform, bundled or
\* not, with some of the sound files among the resources
InitNotify ==
    /\ pc = "notify"
    /\ \E system \in Systems, settings \in ManagerSettings, registry \in BOOLEAN,
          bundled \in BOOLEAN, sounds \in SUBSET SoundTypes :
         notifier = [system |-> system, settings |-> settings, registry |-> registry,
                     bundled |-> bundled, sounds |-> sounds, playing |-> "",
                     signals |-> <<>>, calls |-> <<>>]
    /\ window = NoWindow
    /\ settings_file = NoFile
    /\ remove_illegal_chars = TRUE
    /\ input_text = <<>>
    /\ cleaned = <<>>
    /\ tree = {}
    /\ pathlist = <<>>
    /\ fs = InitialFs({}, [dirs |-> {<<selected_destination_folder_path>>}, files |-> <<>>])
    /\ visited = 0
    /\ i = 0
    /\ recall_files = [error_files |-> <<>>, replace_skip_files |-> <<>>]
    /\ events = <<>>
    /\ finish_arg = <<>>
    /\ outcomes = <<>>
    /\ previous = <<>>

\* What no method of the manager touches
ManagerOnly ==
    UNCHANGED <<pc, tree, pathlist, remove_illegal_chars, fs, visited, i, recall_files,
                events, finish_arg, outcomes, previous, input_text, cleaned, settings_file,
                window>>

\* play_notification is called
PlayNotification ==
    /\ pc = "notify"
    /\ Len(notifier.calls) < MaxNotifications
    /\ \E sound_type \in SoundTypes, sound_ok \in BOOLEAN :
         notifier' = play_notification(notifier, sound_type, sound_ok)
    /\ ManagerOnly

\* The player reports the end of the media:
\* NotificationManager._on_media_status_changed, lines 155-158
MediaEnded ==
    /\ pc = "notify"
    /\ notifier.playing # ""
    /\ notifier' = [notifier EXCEPT !.playing = ""]
    /\ ManagerOnly

NextNotify == PlayNotification \/ MediaEnded

NotifySpec == InitNotify /\ [][NextNotify]_vars

(***************************************************************************)
(* Properties                                                              *)
(***************************************************************************)

\* The positions of the loop iterations done so far
Done == 1..Len(outcomes)

\* The number of the first k iterations with the given outcome
CountKind(kind, k) == Cardinality({ n \in 1..k : outcomes[n].kind = kind })

\* The number of iterations in which shutil.copy2 completed
Copied == Cardinality({ n \in Done : outcomes[n].wrote = "full" })

\* The positions of the events of one signal
EventsOf(sig) == { n \in 1..Len(events) : events[n].sig = sig }

\* The emitted progress values, in order
RECURSIVE ProgressValues(_)
ProgressValues(evs) ==
    IF evs = <<>> THEN <<>>
    ELSE IF Head(evs).sig = "music_progress_signal"
    THEN <<Head(evs).val>> \o ProgressValues(Tail(evs))
    ELSE ProgressValues(Tail(evs))

\* The value the scan leaves for an alias class: that of the last item whose
\* lower-cased key is in the class, "" if there is none
LastMatch(items, values) ==
    LET hits == { n \in 1..Len(items) : Lower(items[n][1]) \in values }
    IN  IF hits = {} THEN EmptyStr
        ELSE items[CHOOSE n \in hits : \A m \in hits : m <= n][2]

\* The value of the first item whose lower-cased key is in the class
FirstMatch(items, values) ==
    LET hits == { n \in 1..Len(items) : Lower(items[n][1]) \in values }
    IN  IF hits = {} THEN EmptyStr
        ELSE items[CHOOSE n \in hits : \A m \in hits : n <= m][2]

\* The parts of destination/clean(artist[0])/clean(album[0])/file_name
PartsFor(file, artist_data, album_data) ==
    PathParts(TargetPath(NewLocation(clean_filename(remove_illegal_chars, FirstText(artist_data)),
                                     clean_filename(remove_illegal_chars, FirstText(album_data))),
                         FileName(PathInStr(file.path))))

\* C1: in a non-empty run every visited file has exactly one outcome: its
\* copy completed and it has no record, or it has one record in
\* replace_skip_files, or one record in error_files; so the three counts add
\* up to the number of files visited, and to total_count at the end.
C1_OneOutcomePerFile ==
    pc \in {"loop", "finished"} =>
        /\ Len(outcomes) = visited
        /\ Copied + Len(recall_files.error_files)
             + Len(recall_files.replace_skip_files) = visited
        /\ \A n \in Done :
             /\ outcomes[n].kind = "Moved" <=> outcomes[n].wrote = "full"
             /\ outcomes[n].kind = "Errored" =>
                  recall_files.error_files[CountKind("Errored", n)].file_name
                    = FileName(PathInStr(pathlist[n].path))
             /\ outcomes[n].kind = "SkippedExisting" =>
                  recall_files.replace_skip_files[CountKind("SkippedExisting", n)].path_in_str
                    = PathInStr(pathlist[n].path)
        /\ Len(recall_files.error_files) = CountKind("Errored", visited)
        /\ Len(recall_files.replace_skip_files) = CountKind("SkippedExisting", visited)
        /\ pc = "finished" =>
             /\ visited = Len(pathlist)
             /\ events[1].val = Len(pathlist)
             /\ finish_arg = <<recall_files>>

C1_Witness ==
    /\ pc = "finished"
    /\ Len(pathlist) = 3
    /\ CountKind("Moved", 3) = 1
    /\ CountKind("SkippedExisting", 3) = 1
    /\ CountKind("Errored", 3) = 1

\* C2: no step changes or removes a file that exists, and a file whose target
\* exists when it is processed is recorded as SkippedExisting without any
\* write to the file system.
C2_NeverOverwrites ==
    [][ /\ \A p \in DOMAIN fs.files : p \in DOMAIN fs'.files /\ fs'.files[p] = fs.files[p]
        /\ visited' = visited + 1 =>
             LET o == outcomes'[visited'] IN
             (o.target # <<>> /\ Exists(fs, o.target)) =>
                 /\ o.kind = "SkippedExisting"
                 /\ o.wrote = "no"
                 /\ fs' = fs
                 /\ Len(recall_files'.replace_skip_files)
                      = Len(recall_files.replace_skip_files) + 1 ]_vars

C2_Witness ==
    /\ \E n \in Done :
         /\ outcomes[n].kind = "SkippedExisting"
         /\ outcomes[n].target \in DOMAIN fs.files
         /\ fs.files[outcomes[n].target] = OldData
    /\ \E n \in Done : outcomes[n].kind = "Moved"

\* C3: in a non-empty run the first event is number_songs_signal with the
\* number of files, emitted before any file is processed; every later event is
\* a progress event or the one organize_finish_signal, which is the last event.
C3_EventOrder ==
    Len(pathlist) > 0 =>
        /\ visited > 0 => events # <<>>
        /\ events # <<>> =>
             /\ events[1].sig = "number_songs_signal"
             /\ events[1].val = Len(pathlist)
        /\ \A n \in 2..Len(events) :
             events[n].sig \in {"music_progress_signal", "organize_finish_signal"}
        /\ \A n \in EventsOf("organize_finish_signal") : n = Len(events)
        /\ pc = "finished" <=> EventsOf("organize_finish_signal") # {}
        /\ Len(finish_arg) = Cardinality(EventsOf("organize_finish_signal"))
        /\ pc = "finished" => visited = Len(pathlist)

C3_Witness ==
    /\ pc = "finished"
    /\ Len(events) = 5
    /\ Cardinality(EventsOf("music_progress_signal")) = 3

\* C4: the counter and the progress events count exactly the files whose
\* outcome is Moved or Errored: after every iteration both equal the number of
\* files visited minus the number of SkippedExisting records.
C4_ProgressCountsMovedAndErrored ==
    pc \in {"loop", "finished"} =>
        /\ i = CountKind("Moved", visited) + CountKind("Errored", visited)
        /\ Cardinality(EventsOf("music_progress_signal")) = i
        /\ i = visited - Len(recall_files.replace_skip_files)
        /\ \A n \in Done : outcomes[n].counted <=> outcomes[n].kind # "SkippedExisting"

C4_Witness ==
    /\ pc = "finished"
    /\ Len(recall_files.replace_skip_files) = 1
    /\ CountKind("Moved", visited) = 1
    /\ CountKind("Errored", visited) = 1
    /\ Cardinality(EventsOf("music_progress_signal")) = 2

\* C5: in every non-empty run the event before organize_finish_signal is a
\* progress event with value 100.
C5_FinalProgressIs100 ==
    pc = "finished" =>
        /\ events[Len(events) - 1].sig = "music_progress_signal"
        /\ events[Len(events) - 1].val = 100

\* C6: the emitted progress values never decrease and lie in 0..100.
C6_ProgressMonotone ==
    LET values == ProgressValues(events) IN
    /\ \A n \in 1..Len(values) : values[n] \in 0..100
    /\ \A n \in 1..(Len(values) - 1) : values[n] <= values[n + 1]

C6_Witness ==
    ProgressValues(events) = <<33, 66, 100>>

\* C7: when discovery yields no file the run emits number_songs_signal(0),
\* the "no songs" dialog and the kill signal, and nothing else; it processes no
\* file and changes nothing in the file system.
C7_EmptyRun ==
    /\ [](Len(pathlist) = 0 =>
            /\ pc \in {"start", "empty", "killed"}
            /\ visited = 0 /\ outcomes = <<>> /\ finish_arg = <<>>
            /\ pc = "start" => events = <<>>
            /\ pc = "empty" => events = <<Event("number_songs_signal", 0, "")>>
            /\ pc = "killed" =>
                 events = <<Event("number_songs_signal", 0, ""),
                            Event("custom_dialog_signal", 0, NoSongsText),
                            Event("kill_thread_signal", 0, "organize")>>)
    /\ [][Len(pathlist) = 0 => fs' = fs]_vars
    /\ [][pc = "killed" => UNCHANGED vars]_vars

C7_Witness == pc = "killed" /\ Len(events) = 3

\* C8: a file whose processing fails gets one record in error_files, the loop
\* goes on with the next file, and every non-empty run ends with
\* organize_finish_signal after all files were visited.
C8_FailureNeverAborts ==
    /\ [](pc \in {"start", "empty", "killed", "loop", "finished"})
    /\ [](\A n \in Done :
            outcomes[n].kind = "Errored" =>
                /\ Len(recall_files.error_files) >= CountKind("Errored", n)
                /\ recall_files.error_files[CountKind("Errored", n)].error = outcomes[n].error
                /\ pc = "loop" \/ (pc = "finished" /\ visited = Len(pathlist)))
    /\ [](Len(recall_files.error_files) = CountKind("Errored", visited))
    /\ (Len(pathlist) > 0 ~>
          (pc = "finished" /\ visited = Len(pathlist)
             /\ events[Len(events)].sig = "organize_finish_signal"))

C8_Witness ==
    /\ pc = "finished"
    /\ Len(pathlist) = 3
    /\ outcomes[1].kind = "Errored"
    /\ outcomes[2].kind = "Errored"
    /\ outcomes[2].wrote = "partial"
    /\ outcomes[3].kind = "Moved"

\* C9 as claimed: the value of the first artist (album) alias key in iteration
\* order is the one the target is built from.
C9_FirstAliasWins ==
    \A n \in Done :
        outcomes[n].target # <<>> =>
            outcomes[n].target =
                PartsFor(pathlist[n], FirstMatch(pathlist[n].meta.tags, artist_values),
                         FirstMatch(pathlist[n].meta.tags, album_values))

\* C9 as amended: the value of the last artist (album) alias key in iteration
\* order is the one the target is built from; every later matching key
\* overwrites the value found before.
C9_LastAliasWins ==
    \A n \in Done :
        outcomes[n].target # <<>> =>
            outcomes[n].target =
                PartsFor(pathlist[n], LastMatch(pathlist[n].meta.tags, artist_values),
                         LastMatch(pathlist[n].meta.tags, album_values))

C9_Witness ==
    \E n \in Done :
        /\ outcomes[n].target # <<>>
        /\ FirstMatch(pathlist[n].meta.tags, artist_values)
             # LastMatch(pathlist[n].meta.tags, artist_values)
        /\ FirstMatch(pathlist[n].meta.tags, album_values)
             # LastMatch(pathlist[n].meta.tags, album_values)

\* The tags of the file were read and the scan left artist or album at ""
Unresolved(file) ==
    /\ file.meta.state = "tags"
    /\ \/ LastMatch(file.meta.tags, artist_values) = EmptyStr
       \/ LastMatch(file.meta.tags, album_values) = EmptyStr

\* C10: a file whose tags were read and whose artist or album is unresolved is
\* Errored with the message "Artist or album data not found"; nothing is
\* planned or written for it, and its record holds the raw values the scan
\* left ("" for a class without alias).
C10_IdentityMissing ==
    \A n \in Done :
        Unresolved(pathlist[n]) =>
            /\ outcomes[n].kind = "Errored"
            /\ outcomes[n].error = NotFoundMsg
            /\ outcomes[n].wrote = "no"
            /\ outcomes[n].target = <<>>
            /\ LET rec == recall_files.error_files[CountKind("Errored", n)] IN
               /\ rec.error = NotFoundMsg
               /\ rec.file_name = FileName(PathInStr(pathlist[n].path))
               /\ rec.artist_found = LastMatch(pathlist[n].meta.tags, artist_values)
               /\ rec.album_found = LastMatch(pathlist[n].meta.tags, album_values)
               /\ rec.metadata_dict = pathlist[n].meta.tags

C10_Witness ==
    \E n \in Done :
        /\ Unresolved(pathlist[n])
        /\ LastMatch(pathlist[n].meta.tags, artist_values) # EmptyStr
        /\ outcomes[n].kind = "Errored"
        /\ recall_files.error_files[CountKind("Errored", n)].artist_found # EmptyStr

\* The ten single characters clean_filename is said to delete
IllegalChars == {":", "*", "?", "<", ">", "|", "/", "\\", "\"", "'"}

\* The text has three dots in a row
HasEllipsis(s) ==
    \E k \in 1..(Len(s) - 2) : s[k] = "." /\ s[k + 1] = "." /\ s[k + 2] = "."

\* The text neither begins nor ends with white space
NoOuterWhitespace(s) ==
    s # <<>> => (s[1] \notin Whitespace /\ s[Len(s)] \notin Whitespace)

\* The characters of the text that are not in the set, in order
RECURSIVE Without(_, _)
Without(s, cs) ==
    IF s = <<>> THEN <<>>
    ELSE IF Head(s) \in cs THEN Without(Tail(s), cs)
    ELSE <<Head(s)>> \o Without(Tail(s), cs)

\* r is s without the white space at its two ends
IsStripOf(r, s) ==
    /\ NoOuterWhitespace(r)
    /\ \E j, k \in 0..Len(s) :
         /\ j <= k
         /\ SubSeq(s, j + 1, k) = r
         /\ \A n \in 1..j : s[n] \in Whitespace
         /\ \A n \in (k + 1)..Len(s) : s[n] \in Whitespace

\* C11: clean_filename is idempotent: applied to its own result it returns
\* that result, for every text and either value of the flag.
C11_CleanIdempotent ==
    Len(cleaned) = 2 => cleaned[2] = cleaned[1]

C11_Witness ==
    /\ Len(cleaned) = 2
    /\ remove_illegal_chars
    /\ input_text = <<".", ":", ".", ".">>
    /\ cleaned[1] = <<>>

\* C12 as claimed: with the flag set, clean_filename of  My/Band: "Best"
\* returns  My Band Best.
C12_BandExampleWithSpace ==
    (remove_illegal_chars /\ input_text = BandText /\ Len(cleaned) >= 1) =>
        cleaned[1] = <<"M", "y", " ", "B", "a", "n", "d", " ", "B", "e", "s", "t">>

\* C12 as amended: with the flag set, clean_filename of  My/Band: "Best"
\* returns  MyBand Best: the slash is deleted, no space takes its place.
C12_BandExample ==
    (remove_illegal_chars /\ input_text = BandText /\ Len(cleaned) >= 1) =>
        cleaned[1] = <<"M", "y", "B", "a", "n", "d", " ", "B", "e", "s", "t">>

C12_Witness ==
    /\ remove_illegal_chars
    /\ input_text = BandText
    /\ Len(cleaned) = 1
    /\ Len(cleaned[1]) = 11

\* The places of the text where three dots in a row begin
EllipsisAt(s) ==
    { k \in 1..(Len(s) - 2) : s[k] = "." /\ s[k + 1] = "." /\ s[k + 2] = "." }

\* The characters of the text from place n on that are none of the ten and
\* at none of the places gone, in order
RECURSIVE KeptFrom(_, _, _)
KeptFrom(s, n, gone) ==
    IF n > Len(s) THEN <<>>
    ELSE IF s[n] \in IllegalChars \/ n \in gone THEN KeptFrom(s, n + 1, gone)
    ELSE <<s[n]>> \o KeptFrom(s, n + 1, gone)

\* The text with every run of dots cut to its length modulo three, dots
\* being the number of dots of the run read so far
RECURSIVE CutDotRuns(_, _)
CutDotRuns(s, dots) ==
    IF s = <<>> THEN [n \in 1..(dots % 3) |-> "."]
    ELSE IF Head(s) = "." THEN CutDotRuns(Tail(s), dots + 1)
    ELSE [n \in 1..(dots % 3) |-> "."] \o <<Head(s)>> \o CutDotRuns(Tail(s), 0)

\* C13 as claimed: with the flag set the result of clean_filename holds none
\* of the ten characters  : * ? < > | / \ " '  and no "...", does not begin or
\* end with white space, and keeps every other character of the text in its
\* order: it is the text without the ten characters, without some "..." of
\* the text and without the white space at the two ends of what is left.
\* With the flag cleared the result is the text without the white space at
\* its two ends.
C13_KeepsOtherCharacters ==
    Len(cleaned) >= 1 =>
        LET r == cleaned[1] IN
        IF remove_illegal_chars
        THEN /\ \A n \in 1..Len(r) : r[n] \notin IllegalChars
             /\ ~HasEllipsis(r)
             /\ NoOuterWhitespace(r)
             /\ \E starts \in SUBSET EllipsisAt(input_text) :
                  /\ \A a, b \in starts : a < b => a + 3 <= b
                  /\ IsStripOf(r, KeptFrom(input_text, 1,
                                           UNION { {k, k + 1, k + 2} : k \in starts }))
        ELSE IsStripOf(r, input_text)

\* C13 as amended: with the flag set the result of clean_filename holds none
\* of the ten characters and no "...", and does not begin or end with white
\* space.  It is the text left when the ten characters are deleted, every
\* run of dots of what is then left is cut to its length modulo three (so
\* dots that only the deleted characters kept apart are deleted too), and
\* the white space at the two ends of what is then left is removed; every
\* other character is kept in its order.  With the flag cleared the result
\* is the text without the white space at its two ends.
C13_CleanPostcondition ==
    Len(cleaned) >= 1 =>
        LET r == cleaned[1] IN
        IF remove_illegal_chars
        THEN /\ \A n \in 1..Len(r) : r[n] \notin IllegalChars
             /\ ~HasEllipsis(r)
             /\ NoOuterWhitespace(r)
             /\ IsStripOf(r, CutDotRuns(Without(input_text, IllegalChars), 0))
        ELSE IsStripOf(r, input_text)

\* The text  .:..  has no "..." and its three dots are deleted
C13_Witness ==
    /\ remove_illegal_chars
    /\ input_text = <<".", ":", ".", ".">>
    /\ ~HasEllipsis(input_text)
    /\ Len(cleaned) = 1
    /\ cleaned[1] = <<>>

\* The iterations n < m that planned the same target, n being the first
\* iteration of the run that planned it
SameTarget(n, m) ==
    /\ n < m
    /\ outcomes[n].target # <<>>
    /\ outcomes[m].target = outcomes[n].target
    /\ \A k \in 1..(n - 1) : outcomes[k].target # outcomes[n].target

\* The file of iteration m was recorded in replace_skip_files and nothing
\* was written for it
RecordedAsExisting(m) ==
    /\ outcomes[m].kind = "SkippedExisting"
    /\ outcomes[m].wrote = "no"
    /\ LET rec == recall_files.replace_skip_files[CountKind("SkippedExisting", m)] IN
       /\ rec.error = ExistsMsg
       /\ rec.file_name = FileName(PathInStr(pathlist[m].path))
       /\ rec.path_in_str = PathInStr(pathlist[m].path)
       /\ PathParts(rec.new_location) = Parent(outcomes[m].target)

\* C14 as claimed: of two files of one run with the same cleaned artist,
\* album and file name, the first is copied to the target and the second is
\* recorded in replace_skip_files with "File already exists in the destination
\* folder"; the second's source and the copied target are left as they are.
C14_FirstCopiedSecondSkipped ==
    \A n, m \in Done :
        SameTarget(n, m) =>
            /\ outcomes[n].kind = "Moved"
            /\ RecordedAsExisting(m)
            /\ fs.files[outcomes[n].target] = pathlist[n].data
            /\ fs.files[PathParts(pathlist[m].path)] = pathlist[m].data

\* C14 as amended: the same, when the target does not exist before the first
\* of the two is processed and its copy completes.
C14_CopiedFirstBlocksSecond ==
    \A n, m \in Done :
        (SameTarget(n, m) /\ outcomes[n].kind = "Moved") =>
            /\ ~outcomes[n].existed
            /\ RecordedAsExisting(m)
            /\ fs.files[outcomes[n].target] = pathlist[n].data
            /\ fs.files[PathParts(pathlist[m].path)] = pathlist[m].data

C14_Witness ==
    \E n, m \in Done :
        /\ SameTarget(n, m)
        /\ outcomes[n].kind = "Moved"
        /\ outcomes[m].kind = "SkippedExisting"
        /\ pathlist[n].data # pathlist[m].data
        /\ pc = "finished"

\* round(n / d) of Python: to the nearest integer, a tie to the even one
Round(n, d) ==
    LET q == n \div d
        r == n % d
    IN  IF 2 * r < d THEN q
        ELSE IF 2 * r > d THEN q + 1
        ELSE IF q % 2 = 0 THEN q ELSE q + 1

\* C16 as claimed: the k-th progress value is k / total * 100 rounded to the
\* nearest integer (2 of 3 gives 67).
C16_ProgressRounded ==
    LET values == ProgressValues(events) IN
    \A k \in 1..Len(values) : values[k] = Round(k * 100, Len(pathlist))

\* C16 as amended: the k-th progress value is int(k / total * 100), the
\* float k / total * 100 with its fraction cut off (2 of 3 gives 66): it is
\* never above the exact percentage and at most one below it, and exactly
\* one below it only when the exact percentage is a whole number that the
\* float falls short of.
C16_ProgressTruncated ==
    LET values == ProgressValues(events) IN
    /\ Len(values) = i
    /\ \A k \in 1..Len(values) :
         /\ values[k] * Len(pathlist) <= k * 100
         /\ k * 100 <= (values[k] + 1) * Len(pathlist)
         /\ k = Len(pathlist) => values[k] = 100

C16_Witness ==
    /\ pc = "loop"
    /\ Len(pathlist) = 3
    /\ i = 2
    /\ ProgressValues(events)[2] = 66
    /\ Round(200, 3) = 67

\* The last segment of the source path of an entry
SourceName(file) ==
    LET segs == Split(file.path, "/") IN segs[Len(segs)]

\* destination / clean(artist) / clean(album) / name for the artist and album
\* text of an entry
ExpectedTarget(file) ==
    PathParts(selected_destination_folder_path)
      \o PathParts(clean_filename(remove_illegal_chars,
                                  FirstText(LastMatch(file.meta.tags, artist_values))))
      \o PathParts(clean_filename(remove_illegal_chars,
                                  FirstText(LastMatch(file.meta.tags, album_values))))
      \o <<SourceName(file)>>

\* C17: the target of a file is destination / clean_filename(artist) /
\* clean_filename(album) / file name, the file name being the last segment of
\* the source path as it is, whatever the flag; the existence check and the
\* copy both use this cleaned path.
C17_TargetPath ==
    [][ visited' = visited + 1 =>
          LET o == outcomes'[visited']
              file == pathlist[visited']
          IN  o.target # <<>> =>
                /\ o.target = ExpectedTarget(file)
                /\ o.target[Len(o.target)] = SourceName(file)
                /\ o.existed = Exists(fs, ExpectedTarget(file))
                /\ o.wrote # "no" =>
                     /\ DOMAIN fs'.files = DOMAIN fs.files \cup {Resolve(ExpectedTarget(file))}
                     /\ Resolve(ExpectedTarget(file)) \notin DOMAIN fs.files ]_vars

C17_Witness ==
    /\ remove_illegal_chars
    /\ \E n \in Done :
         /\ outcomes[n].kind = "Moved"
         /\ outcomes[n].target = << <<"d">>, <<"B">>, <<"X">>,
                                    <<"d", "'", ".", "w", "m", "a">> >>
         /\ outcomes[n].target \in DOMAIN fs.files
         /\ FirstText(LastMatch(pathlist[n].meta.tags, album_values)) = <<" ", "X">>

\* The message of the exception the loop body raises for an entry whose tag
\* container cannot be read
ReadFailure(file) ==
    IF file.meta.state = "none" THEN NoneTypeMsg ELSE file.meta.msg

\* C18: a file whose tag container cannot be read at all (the reader raises,
\* or returns no container) is Errored; its record has artist_found "",
\* album_found "", an empty tag mapping and the failure message; nothing is
\* planned or written for it, and it is counted for the progress.
C18_UnreadableContainer ==
    \A n \in Done :
        pathlist[n].meta.state # "tags" =>
            /\ outcomes[n].kind = "Errored"
            /\ outcomes[n].error = ReadFailure(pathlist[n])
            /\ outcomes[n].target = <<>>
            /\ outcomes[n].wrote = "no"
            /\ outcomes[n].counted
            /\ i >= Cardinality({ k \in 1..n : pathlist[k].meta.state # "tags" })
            /\ LET rec == recall_files.error_files[CountKind("Errored", n)] IN
               /\ rec.file_name = FileName(PathInStr(pathlist[n].path))
               /\ rec.artist_found = EmptyStr
               /\ rec.album_found = EmptyStr
               /\ rec.metadata_dict = EmptyDict
               /\ rec.error = ReadFailure(pathlist[n])

C18_Witness ==
    /\ pc = "finished"
    /\ i = 2
    /\ Len(pathlist) = 2
    /\ pathlist[1].meta.state = "error"
    /\ pathlist[2].meta.state = "none"
    /\ Len(recall_files.error_files) = 2
    /\ ProgressValues(events) = <<50, 100>>

\* The message is that of the FileExistsError of line 278, as line 289 wraps it
IsDestinationExistsFailure(error) ==
    /\ Len(error) >= 2
    /\ error[1] = "Copy failed: "
    /\ error[2] = "Destination file already exists: "

\* C19: when only the run writes to the destination, a file whose target
\* exists when it is processed (left by an earlier run or copied earlier in
\* this run) is recorded in replace_skip_files and never in error_files; no
\* record carries the failure "Destination file already exists" of _copy_file.
C19_ExistingTargetNeverErrored ==
    /\ \A n \in Done :
         /\ outcomes[n].existed =>
              /\ outcomes[n].kind = "SkippedExisting"
              /\ recall_files.replace_skip_files[CountKind("SkippedExisting", n)].path_in_str
                   = PathInStr(pathlist[n].path)
         /\ outcomes[n].kind = "Errored" => ~outcomes[n].existed
         /\ ~IsDestinationExistsFailure(outcomes[n].error)
    /\ \A k \in 1..Len(recall_files.error_files) :
         ~IsDestinationExistsFailure(recall_files.error_files[k].error)

\* The name of the entry ends in an extension of the list
HasListedExtension(e) ==
    \E k \in 1..Len(extensions) : EndsWith(SourceName(e), extensions[k])

\* C20: the list discovery builds holds exactly the regular files of the
\* source tree whose name ends in one of the 15 extensions, each once, and no
\* directory, even one whose name ends in such an extension.
C20_DiscoversRegularFiles ==
    pc \in {"loop", "empty", "finished", "killed"} =>
        /\ { pathlist[n] : n \in 1..Len(pathlist) }
             = { e \in tree : ~e.isdir /\ HasListedExtension(e) }
        /\ \A a, b \in 1..Len(pathlist) : a # b => pathlist[a] # pathlist[b]
        /\ \A n \in 1..Len(pathlist) : ~pathlist[n].isdir

\* The outcome the earlier run had for the file of iteration n of this run
PastOutcome(n) ==
    LET past == previous[1]
        m == CHOOSE k \in 1..Len(past.pathlist) : past.pathlist[k] = pathlist[n]
    IN  past.outcomes[m]

\* Every file the earlier run Moved is SkippedExisting in this run
MovedThenSkipped ==
    \A n \in Done :
        PastOutcome(n).kind = "Moved" =>
            /\ outcomes[n].kind = "SkippedExisting"
            /\ outcomes[n].wrote = "no"
            /\ outcomes[n].target = PastOutcome(n).target

\* C15 as claimed: a second run on the source and destination the first run
\* left records every file the first run Moved as SkippedExisting, copies
\* nothing and leaves the destination as it was.
C15_RerunCopiesNothing ==
    previous # <<>> =>
        /\ MovedThenSkipped
        /\ \A n \in Done : outcomes[n].wrote = "no"
        /\ fs = previous[1].fs

\* C15 as amended: the second run records every file the first run Moved as
\* SkippedExisting and changes no file the first run left; it copies a file
\* only if the first run recorded it as Errored, so when no copy of the first
\* run failed it copies nothing and leaves the destination as it was.
C15_RerunSkipsMoved ==
    previous # <<>> =>
        /\ MovedThenSkipped
        /\ \A n \in Done :
             PastOutcome(n).kind = "SkippedExisting" => outcomes[n].kind = "SkippedExisting"
        /\ \A p \in DOMAIN previous[1].fs.files :
             p \in DOMAIN fs.files /\ fs.files[p] = previous[1].fs.files[p]
        /\ \A n \in Done :
             outcomes[n].wrote # "no" =>
                 (PastOutcome(n).kind = "Errored" /\ PastOutcome(n).target # <<>>)
        /\ (\A m \in 1..Len(previous[1].outcomes) :
               previous[1].outcomes[m].kind = "Errored" =>
                   previous[1].outcomes[m].target = <<>>)
             => (fs = previous[1].fs /\ \A n \in Done : outcomes[n].wrote = "no")

C15_Witness ==
    /\ previous # <<>>
    /\ pc = "finished"
    /\ Len(pathlist) = 2
    /\ \E n \in Done :
         /\ PastOutcome(n).kind = "Moved"
         /\ outcomes[n].kind = "SkippedExisting"
         /\ fs.files[outcomes[n].target] = pathlist[n].data
    /\ \E n \in Done :
         /\ PastOutcome(n).kind = "Errored"
         /\ PastOutcome(n).target = <<>>
         /\ outcomes[n].kind = "Errored"
    /\ fs = previous[1].fs

\* The settings file holds a JSON object with the key remove_illegal_chars
HasFlagKey(file) ==
    file.state = "json" /\ \E n \in 1..Len(file.dict) : file.dict[n][1] = "remove_illegal_chars"

\* C21: the flag a run uses is the value of the key remove_illegal_chars of
\* the settings file, and it is true when the file is absent or has no such
\* key; the targets of the run are built with that flag.
C21_FlagFromSettings ==
    pc \in {"start", "loop", "empty", "finished", "killed"} =>
        /\ HasFlagKey(settings_file) =>
             \E n \in 1..Len(settings_file.dict) :
                 /\ settings_file.dict[n][1] = "remove_illegal_chars"
                 /\ remove_illegal_chars = settings_file.dict[n][2]
        /\ ~HasFlagKey(settings_file) => remove_illegal_chars = TRUE
        /\ \A n \in Done :
             outcomes[n].target # <<>> => outcomes[n].target = ExpectedTarget(pathlist[n])

C21_Witness ==
    /\ pc = "finished"
    /\ settings_file = JsonFile(<<>>)
    /\ remove_illegal_chars
    /\ \E n \in Done :
         /\ outcomes[n].kind = "Moved"
         /\ FirstText(LastMatch(pathlist[n].meta.tags, artist_values)) = <<"A", ":">>
         /\ outcomes[n].target = << <<"d">>, <<"A">>, <<"X">>, <<"a", ".", "m", "p", "3">> >>

\* The error is "Copy failed: " followed by a message that begins as given
IsCopyFailure(error, begin) ==
    /\ Len(error) >= 2
    /\ error[1] = "Copy failed: "
    /\ error[2] = begin

\* The beginnings of the messages of the failures of steps 2 to 4 of _copy_file
CheckFailures ==
    {"Source file not found: ", "Cannot read source file: ",
     "Destination file already exists: "}

\* The iteration ended in Errored with this str(e) and left this file system
ErroredWith(o, message, f1, f2, wrote) ==
    /\ o.kind = "Errored"
    /\ o.error = message
    /\ f2 = f1
    /\ o.wrote = wrote

\* What _copy_file does after its mkdir left the file system made: the
\* checks of the source and of the target in their order, then the copy,
\* each failure with "Copy failed: " and the message of the step that failed
AfterMkdir(o, made, f2, source_path, data) ==
    \/ ErroredWith(o, <<"Copy failed: ", "Source file not found: ">> \o source_path,
                   made, f2, "no")
    \/ ErroredWith(o, <<"Copy failed: ", "Cannot read source file: ">> \o source_path,
                   made, f2, "no")
    \/ /\ Exists(made, o.target)
       /\ ErroredWith(o, <<"Copy failed: ", "Destination file already exists: ">>
                            \o o.destination_path, made, f2, "no")
    \/ /\ ~Exists(made, o.target)
       /\ \/ ErroredWith(o, <<"Copy failed: ">> \o OSErrorText("EISDIR", source_path),
                          made, f2, "no")
          \/ ErroredWith(o, <<"Copy failed: ">> \o OSErrorText("EACCES", o.destination_path),
                          made, f2, "no")
          \/ ErroredWith(o, <<"Copy failed: ">>
                               \o OSErrorText("ENOSPC", source_path) \o <<" -> ">>
                               \o Repr(o.destination_path),
                          WriteFile(made, o.target, PartialData), f2, "partial")
          \/ /\ o.kind = "Moved"
             /\ o.wrote = "full"
             /\ f2 = WriteFile(made, o.target, data)

\* What _copy_file does when its mkdir gave m: the error of mkdir with what
\* it made left in place and nothing else done, or the later steps
AfterPathMkdir(o, m, f2, source_path, data) ==
    IF m.errno # ""
    THEN ErroredWith(o, <<"Copy failed: ">> \o OSErrorText(m.errno, JoinParts(m.path)),
                     m.fs, f2, "no")
    ELSE AfterMkdir(o, m.fs, f2, source_path, data)

\* C22: _copy_file first makes the missing ancestor directories of the
\* target, then checks that the source exists, that it is readable and that
\* the target does not exist, then copies, then checks that the target
\* exists.  The first step that fails ends the call: a failure of mkdir
\* leaves no copy and what mkdir made before it failed, a failed check leaves
\* the directories made and no copy, and only a failure of the copy itself
\* can leave a file.  Every failure reaches run() as "Copy failed: " and the
\* message of the step that failed, which is the error of the record
\* appended to error_files.
C22_CopySteps ==
    [][ visited' = visited + 1 =>
          LET o == outcomes'[visited']
          IN  (o.target # <<>> /\ ~o.existed) =>
                /\ \E limit \in {NoLimit, 0, 1} :
                     AfterPathMkdir(o, PathMkdir(fs, Parent(o.target), limit), fs',
                                    PathInStr(pathlist[visited'].path),
                                    pathlist[visited'].data)
                /\ o.kind = "Errored" =>
                     /\ Len(recall_files'.error_files) = Len(recall_files.error_files) + 1
                     /\ recall_files'.error_files[Len(recall_files'.error_files)].error
                          = o.error
                     /\ UNCHANGED pc ]_vars

C22_Witness ==
    \E n \in Done :
        /\ outcomes[n].kind = "Errored"
        /\ IsCopyFailure(outcomes[n].error, "Source file not found: ")
        /\ outcomes[n].target[2] = <<"B">>
        /\ Parent(outcomes[n].target) \in fs.dirs
        /\ ~Exists(fs, outcomes[n].target)

\* The sequence a is the beginning of the sequence b
IsPrefix(a, b) == Len(a) <= Len(b) /\ SubSeq(b, 1, Len(a)) = a

\* The iteration whose record is the k-th of the list of the given kind
IterationOf(kind, k) ==
    CHOOSE n \in Done : outcomes[n].kind = kind /\ CountKind(kind, n) = k

\* C23: the files are processed one at a time in the order of the list, each
\* once; the two lists of recall_files only grow, at their end and by one
\* record per file at most, and the records of each list are in the order of
\* their files in the list.
C23_OneAtATimeAppendOnly ==
    /\ [][ /\ visited' = visited \/ visited' = visited + 1
           /\ visited' = visited + 1 =>
                /\ Len(outcomes') = Len(outcomes) + 1
                /\ SubSeq(outcomes', 1, Len(outcomes)) = outcomes
                /\ outcomes'[visited'].path = pathlist[visited'].path
                /\ pathlist' = pathlist
           /\ visited' = visited => outcomes' = outcomes
           /\ IsPrefix(recall_files.error_files, recall_files'.error_files)
           /\ IsPrefix(recall_files.replace_skip_files, recall_files'.replace_skip_files)
           /\ Len(recall_files'.error_files) + Len(recall_files'.replace_skip_files)
                <= Len(recall_files.error_files) + Len(recall_files.replace_skip_files)
                     + (visited' - visited) ]_vars
    /\ [](/\ Len(outcomes) = visited
          /\ visited <= Len(pathlist)
          /\ \A a, b \in 1..Len(pathlist) : a # b => pathlist[a].path # pathlist[b].path
          /\ \A k \in 1..Len(recall_files.error_files) :
               recall_files.error_files[k].file_name
                 = FileName(PathInStr(pathlist[IterationOf("Errored", k)].path))
          /\ \A k \in 1..Len(recall_files.replace_skip_files) :
               recall_files.replace_skip_files[k].path_in_str
                 = PathInStr(pathlist[IterationOf("SkippedExisting", k)].path))

C23_Witness ==
    /\ pc = "finished"
    /\ Len(pathlist) = 3
    /\ outcomes[1].kind = "Errored"
    /\ outcomes[2].kind = "SkippedExisting"
    /\ outcomes[3].kind = "Errored"
    /\ recall_files.error_files[1].file_name # recall_files.error_files[2].file_name

\* The record _handle_existing_file builds for an entry
ExistingRecord(file) ==
    [file_name |-> SourceName(file),
     new_location |->
         NewLocation(clean_filename(remove_illegal_chars,
                                    FirstText(LastMatch(file.meta.tags, artist_values))),
                     clean_filename(remove_illegal_chars,
                                    FirstText(LastMatch(file.meta.tags, album_values)))),
     path_in_str |-> PathInStr(file.path),
     error |-> ExistsMsg]

\* C24: the iteration of a file whose outcome is SkippedExisting leaves the
\* whole file system as it was (no directory made, no file written, source
\* and target untouched); it appends one record {file_name, new_location,
\* path_in_str, error} to replace_skip_files and changes nothing else of the
\* run: no error record, no progress event, the counter keeps its value.
C24_SkipChangesNothing ==
    [][ (visited' = visited + 1 /\ outcomes'[visited'].kind = "SkippedExisting") =>
          /\ fs' = fs
          /\ recall_files'.replace_skip_files
               = Append(recall_files.replace_skip_files, ExistingRecord(pathlist[visited']))
          /\ DOMAIN recall_files'.replace_skip_files[Len(recall_files'.replace_skip_files)]
               = {"file_name", "new_location", "path_in_str", "error"}
          /\ recall_files'.error_files = recall_files.error_files
          /\ i' = i
          /\ events' = events
          /\ UNCHANGED <<pc, pathlist, tree, remove_illegal_chars, finish_arg>> ]_vars

C24_Witness ==
    /\ Len(outcomes) = 1
    /\ outcomes[1].kind = "SkippedExisting"
    /\ fs.files[outcomes[1].target] = OldData
    /\ recall_files.replace_skip_files[1].new_location = <<"d", "/", "A", "/", "X">>
    /\ events = <<Event("number_songs_signal", Len(pathlist), "")>>
    /\ i = 0

\* The run ended, its last file was a collision and every file before it was
\* counted
CollisionAtEnd ==
    /\ pc = "finished"
    /\ Len(pathlist) >= 2
    /\ outcomes[Len(pathlist)].kind = "SkippedExisting"
    /\ \A n \in 1..(Len(pathlist) - 1) : outcomes[n].counted

\* C25 as claimed: when the collisions are at the end of the list, a progress
\* event with value 100 is emitted before all files were visited.
C25_HundredBeforeEnd ==
    CollisionAtEnd =>
        \E n \in 1..Len(ProgressValues(events)) : ProgressValues(events)[n] = 100

\* The entry with every tag value that is a list cut down to its first element
FirstOnly(file) ==
    [file EXCEPT !.meta.tags =
        [n \in DOMAIN @ |->
            <<@[n][1],
              IF @[n][2].kind = "list" /\ Len(@[n][2].elems) > 1
              THEN ListVal(<<@[n][2].elems[1]>>)
              ELSE @[n][2]>>]]

\* Both values the scan leaves for the entry are lists with an element
HasListValues(file) ==
    /\ file.meta.state = "tags"
    /\ LastMatch(file.meta.tags, artist_values).kind = "list"
    /\ LastMatch(file.meta.tags, album_values).kind = "list"
    /\ LastMatch(file.meta.tags, artist_values).elems # <<>>
    /\ LastMatch(file.meta.tags, album_values).elems # <<>>

\* C26: when the artist and the album value are sequences, the path is built
\* from the first element of each: the text an ASFUnicodeAttribute wraps, the
\* element itself otherwise.  The other elements have no influence: the
\* iteration ends as it would for the same file with only the first elements,
\* with the same outcome, target, message and file system.
C26_FirstElementOnly ==
    [][ visited' = visited + 1 =>
          LET file == pathlist[visited']
              o == outcomes'[visited']
              artist == LastMatch(file.meta.tags, artist_values)
              album == LastMatch(file.meta.tags, album_values)
          IN  HasListValues(file) =>
                /\ o.target =
                     PathParts(selected_destination_folder_path)
                       \o PathParts(clean_filename(remove_illegal_chars, artist.elems[1].text))
                       \o PathParts(clean_filename(remove_illegal_chars, album.elems[1].text))
                       \o <<SourceName(file)>>
                /\ FirstOnly(file) = file \/ \E fault \in Faults :
                     LET r == LoopBody(FirstOnly(file), fs, remove_illegal_chars, fault,
                                       recall_files)
                     IN  /\ r.fs = fs'
                         /\ r.history.kind = o.kind
                         /\ r.history.target = o.target
                         /\ r.history.error = o.error
                         /\ r.counted = o.counted ]_vars

C26_Witness ==
    /\ remove_illegal_chars
    /\ \E n \in Done :
         /\ outcomes[n].kind = "Moved"
         /\ LastMatch(pathlist[n].meta.tags, album_values)
              = ListVal(<<Plain(<<"X">>), Plain(<<"Y">>)>>)
         /\ LastMatch(pathlist[n].meta.tags, artist_values) = ListVal(<<Asf(<<"A", ":">>)>>)
         /\ outcomes[n].target = << <<"d">>, <<"A">>, <<"X">>, <<"a", ".", "m", "p", "3">> >>
         /\ fs.files[outcomes[n].target] = pathlist[n].data

\* The part of a file system under the source root
SourcePart(f) ==
    [dirs |-> { p \in f.dirs : p[1] = selected_music_folder_path },
     files |-> [p \in { q \in DOMAIN f.files : q[1] = selected_music_folder_path }
                  |-> f.files[p]]]

\* C27: the run never modifies the source tree: no step changes anything
\* under the source root, and at every moment every regular file of the tree
\* is at its path with its content, whatever its outcome (a Moved file is
\* copied, not removed).
C27_SourceUntouched ==
    /\ [][SourcePart(fs') = SourcePart(fs)]_vars
    /\ [](\A e \in tree :
            IF e.isdir THEN PathParts(e.path) \in fs.dirs
            ELSE /\ PathParts(e.path) \in DOMAIN fs.files
                 /\ fs.files[PathParts(e.path)] = e.data)
    /\ [](\A n \in Done :
            outcomes[n].kind = "Moved" =>
                /\ fs.files[PathParts(pathlist[n].path)] = pathlist[n].data
                /\ fs.files[Resolve(outcomes[n].target)] = pathlist[n].data)

C27_Witness ==
    /\ pc = "finished"
    /\ Len(pathlist) = 3
    /\ \A n \in Done : outcomes[n].kind = "Moved"
    /\ \A n \in Done : fs.files[PathParts(pathlist[n].path)] = pathlist[n].data
    /\ Cardinality(DOMAIN fs.files) = 6

\* C28: with the flag set, every file the run copies is written inside the
\* destination root, two directory levels below it: its target is
\* destination / artist / album / file name with both segments non-empty and
\* neither "." nor "..".
C28_CopiesInsideDestination ==
    remove_illegal_chars =>
        /\ \A n \in Done :
             outcomes[n].wrote # "no" =>
                 /\ Len(outcomes[n].target) = 4
                 /\ outcomes[n].target[1] = selected_destination_folder_path
                 /\ outcomes[n].target[2] \notin {<<>>, <<".">>, <<".", ".">>}
                 /\ outcomes[n].target[3] \notin {<<>>, <<".">>, <<".", ".">>}
                 /\ outcomes[n].target \in DOMAIN fs.files
        /\ \A p \in DOMAIN fs.files :
             p[1] \in {selected_music_folder_path, selected_destination_folder_path}

\* What lies outside the source root: the destination tree
DestinationPart(f) ==
    [dirs |-> { p \in f.dirs : p[1] # selected_music_folder_path },
     files |-> [p \in { q \in DOMAIN f.files : q[1] # selected_music_folder_path }
                  |-> f.files[p]]]

\* The directories on the way to a target, the directory of the target included
Ancestors(target) == { Resolve(p) : p \in Prefixes(Parent(target)) } \ {<<>>}

\* The iteration just made ended in Errored
ErroredStep == visited' = visited + 1 /\ outcomes'[visited'].kind = "Errored"

\* C29 as stated: the iteration of a file whose outcome is Errored leaves the
\* destination tree as it was, with no directory and no file created.
C29_ErroredLeavesDestination ==
    [][ErroredStep => DestinationPart(fs') = DestinationPart(fs)]_vars

\* C29: the iteration of a file whose outcome is Errored removes nothing and
\* changes no file that existed.  It leaves the file system as it was when
\* the failure comes before _copy_file.  A failure of _copy_file leaves
\* ancestor directories of the target made: those its mkdir made before it
\* failed, when the failure is that of mkdir, and every missing one when a
\* later check fails or the copy fails (on opening the source or the target,
\* or part-way); a copy that failed part-way leaves a partial file at the
\* target.  No other directory and no other file is created.
C29_ErroredLeavesDirectories ==
    [][ ErroredStep =>
          LET o == outcomes'[visited']
              copying == /\ o.target # <<>>
                         /\ Len(o.error) >= 2
                         /\ o.error[1] = "Copy failed: "
          IN  /\ ~copying => fs' = fs
              /\ copying =>
                    /\ fs.dirs \subseteq fs'.dirs
                    /\ fs'.dirs \subseteq fs.dirs \cup Ancestors(o.target)
                    /\ ( \/ o.error[2] \in CheckFailures
                         \/ o.wrote = "partial"
                         \/ o.error = <<"Copy failed: ">>
                                         \o OSErrorText("EACCES", o.destination_path)
                         \/ o.error = <<"Copy failed: ">>
                                         \o OSErrorText("EISDIR",
                                                        PathInStr(pathlist[visited'].path)) ) =>
                          fs'.dirs = fs.dirs \cup Ancestors(o.target)
                    /\ \A p \in DOMAIN fs.files :
                         p \in DOMAIN fs'.files /\ fs'.files[p] = fs.files[p]
                    /\ DOMAIN fs'.files \ DOMAIN fs.files
                         = IF o.wrote = "partial" THEN {Resolve(o.target)} ELSE {}
                    /\ o.wrote = "partial" => fs'.files[Resolve(o.target)] = PartialData ]_vars

\* A run with two Errored files, neither with a ".." in its target: a copy
\* that failed part-way, which left the three directories on its way and a
\* partial target, and a mkdir that made the first missing directory of its
\* target and failed on the second
C29_Witness ==
    \E n \in DOMAIN outcomes, k \in DOMAIN outcomes :
        /\ outcomes[n].kind = "Errored"
        /\ outcomes[n].wrote = "partial"
        /\ outcomes[n].target \in DOMAIN fs.files
        /\ fs.files[outcomes[n].target] = PartialData
        /\ Cardinality(Ancestors(outcomes[n].target)) = 3
        /\ Ancestors(outcomes[n].target) \subseteq fs.dirs
        /\ outcomes[k].kind = "Errored"
        /\ outcomes[k].wrote = "no"
        /\ Len(outcomes[k].error) >= 2
        /\ outcomes[k].error[1] = "Copy failed: "
        /\ outcomes[k].error[2] = StrError("ENOSPC")
        /\ \A j \in 1..Len(outcomes[k].target) : outcomes[k].target[j] # <<".", ".">>
        /\ SubSeq(outcomes[k].target, 1, 2) \in fs.dirs
        /\ Parent(outcomes[k].target) \notin fs.dirs

\* C30: every close of the settings window, through close() or through a
\* close event of the window system, emits windowClosed exactly once, and
\* before it settings_changed exactly when some setting differs from its
\* value at the creation of the window.
C30_CloseEmitsOnce ==
    \A k \in 1..Len(window.closes) :
        window.closes[k].emitted =
            IF window.closes[k].differs THEN <<"settings_changed", "windowClosed">>
            ELSE <<"windowClosed">>

\* The names of the signals a call emitted
SignalsOf(call) == { call.emitted[n].sig : n \in 1..Len(call.emitted) }

\* C31: a call of play_notification with mute_sound set plays nothing and
\* emits nothing; otherwise the fallback is tried exactly when the strategy
\* is unavailable or did not play, the call emits at most one signal, of
\* notification_played and error_signal, and it does not emit
\* notification_played when neither the strategy nor the fallback played.
C31_OneSignalPerNotification ==
    \A k \in 1..Len(notifier.calls) :
        LET call == notifier.calls[k]
        IN  /\ call.muted =>
                  /\ call.emitted = <<>>
                  /\ ~call.strategy_played
                  /\ ~call.fallback_tried
            /\ ~call.muted =>
                  /\ call.fallback_tried <=> (~call.available \/ ~call.strategy_played)
                  /\ Len(call.emitted) <= 1
                  /\ SignalsOf(call) \subseteq {"notification_played", "error_signal"}
                  /\ (~call.strategy_played /\ ~call.fallback_played) =>
                        "notification_played" \notin SignalsOf(call)

====
